---- MODULE Spec2Model ----
(***************************************************************************)
(* Applytics: event recorder (POST /track, POST /track/batch) over the two *)
(* D1 tables `events` and `stats`.                                          *)
(*                                                                         *)
(* Every request is handled by one asynchronous handler invocation; the    *)
(* invocations of concurrent requests interleave at their `await` points.  *)
(* The store is shared.  A request slot p of Procs is one handler          *)
(* invocation: pc[p] is its position, req[p] the request it was given and  *)
(* resp[p] the response it returned.                                       *)
(***************************************************************************)
EXTENDS Integers, Sequences, FiniteSets, TLC

(***************************************************************************)
(* Bounds of the model.                                                    *)
(***************************************************************************)
\* number of requests (handler invocations) in flight over one behaviour
NumProcs == 2
\* longest events array of an ordinary batch request
MaxBatchLen == 2

Procs == 1..NumProcs

(***************************************************************************)
(* JSON values of a request body.  A field is absent (undefined), null, a  *)
(* string or a number.                                                     *)
(***************************************************************************)
Undefined == <<"undefined">>
Null == <<"null">>
Str(s) == <<"string", s>>
Num(n) == <<"number", n>>

\* JavaScript truthiness of a JSON value: `if (!x)`, `x ? a : b`, `x || y`
Truthy(v) == v \notin {Undefined, Null, Str(""), Num(0)}

\* destructuring default `field = dflt`: applies to undefined only
Default(v, dflt) == IF v = Undefined THEN dflt ELSE v

(***************************************************************************)
(* String helpers (String.prototype.startsWith / includes).                *)
(***************************************************************************)
StartsWith(s, pre) ==
    /\ Len(pre) <= Len(s)
    /\ SubSeq(s, 1, Len(pre)) = pre

Includes(s, sub) ==
    \E i \in 1..(Len(s) - Len(sub) + 1) : SubSeq(s, i, i + Len(sub) - 1) = sub

\* determineCategory with the user rule tried before the error rule
determineCategoryUserFirst(eventType) ==
    IF StartsWith(eventType, "purchase") \/ Includes(eventType, "payment")
          \/ Includes(eventType, "subscription")
    THEN "revenue"
    ELSE IF eventType = "install" \/ eventType = "uninstall" \/ Includes(eventType, "update")
    THEN "lifecycle"
    ELSE IF Includes(eventType, "view") \/ Includes(eventType, "screen")
          \/ Includes(eventType, "page")
    THEN "engagement"
    ELSE IF Includes(eventType, "click") \/ Includes(eventType, "tap")
          \/ Includes(eventType, "swipe")
    THEN "interaction"
    ELSE IF Includes(eventType, "user") \/ Includes(eventType, "account")
          \/ Includes(eventType, "login")
    THEN "user"
    ELSE IF Includes(eventType, "error") \/ Includes(eventType, "crash")
          \/ Includes(eventType, "exception")
    THEN "error"
    ELSE "general"

\* utils.js determineCategory: first matching rule wins
determineCategory(eventType) ==
    IF StartsWith(eventType, "purchase") \/ Includes(eventType, "payment")
          \/ Includes(eventType, "subscription")
    THEN "revenue"
    ELSE IF eventType = "install" \/ eventType = "uninstall" \/ Includes(eventType, "update")
    THEN "lifecycle"
    ELSE IF Includes(eventType, "view") \/ Includes(eventType, "screen")
          \/ Includes(eventType, "page")
    THEN "engagement"
    ELSE IF Includes(eventType, "click") \/ Includes(eventType, "tap")
          \/ Includes(eventType, "swipe")
    THEN "interaction"
    ELSE IF Includes(eventType, "error") \/ Includes(eventType, "crash")
          \/ Includes(eventType, "exception")
    THEN "error"
    ELSE IF Includes(eventType, "user") \/ Includes(eventType, "account")
          \/ Includes(eventType, "login")
    THEN "user"
    ELSE "general"

(***************************************************************************)
(* Metric key: `qualifier ? `${event_type}.${qualifier}` : event_type`.    *)
(* event_type is a TLA+ string, qualifier a JSON value (Null or Str).      *)
(***************************************************************************)
buildMetricKey(event_type, qualifier) ==
    IF Truthy(qualifier) THEN event_type \o "." \o qualifier[2] ELSE event_type

(***************************************************************************)
(* The store: the two tables of schema.sql, each a sequence of rows in     *)
(* rowid order.  No statement of the program deletes a row, so the id of a *)
(* new row (INTEGER PRIMARY KEY) is the number of rows plus one.           *)
(* locals[p] holds what a handler invocation keeps in local variables      *)
(* across an await (the `results` of the multi-metric timeseries loop).    *)
(***************************************************************************)
VARIABLES events, stats, pc, req, resp, locals

vars == <<events, stats, pc, req, resp, locals>>

\* SQL `a + b` on INTEGER columns: NULL if either operand is NULL
SqlAdd(a, b) == IF a = Null \/ b = Null THEN Null ELSE Num(a[2] + b[2])

\* createEventStatements with the update's increment bound to 1 instead of
\* the event's value
createEventStatementsAddsOne(app_id, event_type, event_category, qualifier, value, timestamp, country) ==
    <<[table |-> "events",
       app_id |-> app_id, event_type |-> event_type,
       event_category |-> event_category, qualifier |-> qualifier,
       value |-> value, timestamp |-> timestamp, country |-> country],
      [table |-> "stats",
       app_id |-> app_id, metric |-> buildMetricKey(event_type, qualifier),
       category |-> event_category, value |-> value, last_updated |-> timestamp,
       add |-> Num(1), set_last_updated |-> timestamp]>>

\* database.js createEventStatements: the INSERT into events and the
\* upsert into stats, both bound to the call's arguments
createEventStatements(app_id, event_type, event_category, qualifier, value, timestamp, country) ==
    LET metric == buildMetricKey(event_type, qualifier)
        eventStmt == [table |-> "events",
                      app_id |-> app_id, event_type |-> event_type,
                      event_category |-> event_category, qualifier |-> qualifier,
                      value |-> value, timestamp |-> timestamp, country |-> country]
        statsStmt == [table |-> "stats",
                      app_id |-> app_id, metric |-> metric, category |-> event_category,
                      value |-> value, last_updated |-> timestamp,
                      add |-> value, set_last_updated |-> timestamp]
    IN  <<eventStmt, statsStmt>>

\* the conflict target written as (metric) alone: the row of any app that
\* has the metric
StatIndexAnyApp(st, app_id, metric) ==
    IF \E i \in 1..Len(st) : st[i].metric = metric
    THEN CHOOSE i \in 1..Len(st) : st[i].metric = metric
    ELSE 0

\* index of the stats row with this UNIQUE(app_id, metric) key, 0 if none
StatIndex(st, app_id, metric) ==
    IF \E i \in 1..Len(st) : st[i].app_id = app_id /\ st[i].metric = metric
    THEN CHOOSE i \in 1..Len(st) : st[i].app_id = app_id /\ st[i].metric = metric
    ELSE 0

\* the insert guarded against an equal row (INSERT ... WHERE NOT EXISTS): an
\* event that is already in the log is not logged again
InsertEventOnce(ev, s) ==
    IF \E i \in 1..Len(ev) :
          /\ ev[i].app_id = s.app_id /\ ev[i].event_type = s.event_type
          /\ ev[i].event_category = s.event_category /\ ev[i].qualifier = s.qualifier
          /\ ev[i].value = s.value /\ ev[i].timestamp = s.timestamp
          /\ ev[i].country = s.country
    THEN ev
    ELSE Append(ev, [id |-> Len(ev) + 1,
                     app_id |-> s.app_id, event_type |-> s.event_type,
                     event_category |-> s.event_category, qualifier |-> s.qualifier,
                     value |-> s.value, timestamp |-> s.timestamp, country |-> s.country])

\* INSERT INTO events (...) VALUES (...)
InsertEvent(ev, s) ==
    Append(ev, [id |-> Len(ev) + 1,
                app_id |-> s.app_id, event_type |-> s.event_type,
                event_category |-> s.event_category, qualifier |-> s.qualifier,
                value |-> s.value, timestamp |-> s.timestamp, country |-> s.country])

\* the upsert with ON CONFLICT DO NOTHING: an existing counter is left alone
UpsertStatDoNothing(st, s) ==
    IF StatIndex(st, s.app_id, s.metric) = 0
    THEN Append(st, [id |-> Len(st) + 1,
                     app_id |-> s.app_id, metric |-> s.metric,
                     category |-> s.category, value |-> s.value,
                     last_updated |-> s.last_updated])
    ELSE st

\* the upsert writing back a value instead of adding to the stored one
\* (SET value = ?)
UpsertStatOverwritesValue(st, s) ==
    LET i == StatIndex(st, s.app_id, s.metric)
    IN  IF i = 0
        THEN Append(st, [id |-> Len(st) + 1,
                         app_id |-> s.app_id, metric |-> s.metric,
                         category |-> s.category, value |-> s.value,
                         last_updated |-> s.last_updated])
        ELSE [st EXCEPT ![i] = [@ EXCEPT !.value = s.add,
                                         !.last_updated = s.set_last_updated]]

\* the upsert with category in its SET list (SET category = excluded.category)
UpsertStatOverwritesCategory(st, s) ==
    LET i == StatIndex(st, s.app_id, s.metric)
    IN  IF i = 0
        THEN Append(st, [id |-> Len(st) + 1,
                         app_id |-> s.app_id, metric |-> s.metric,
                         category |-> s.category, value |-> s.value,
                         last_updated |-> s.last_updated])
        ELSE [st EXCEPT ![i] = [@ EXCEPT !.value = SqlAdd(@, s.add),
                                         !.last_updated = s.set_last_updated,
                                         !.category = s.category]]

\* the statement without its ON CONFLICT clause on a table without the
\* UNIQUE(app_id, metric) constraint: every event adds a row
UpsertStatAlwaysInserts(st, s) ==
    Append(st, [id |-> Len(st) + 1,
                app_id |-> s.app_id, metric |-> s.metric,
                category |-> s.category, value |-> s.value,
                last_updated |-> s.last_updated])

\* INSERT INTO stats (...) VALUES (...) ON CONFLICT (app_id, metric)
\* DO UPDATE SET value = value + ?, last_updated = ?
UpsertStat(st, s) ==
    LET i == StatIndex(st, s.app_id, s.metric)
    IN  IF i = 0
        THEN Append(st, [id |-> Len(st) + 1,
                         app_id |-> s.app_id, metric |-> s.metric,
                         category |-> s.category, value |-> s.value,
                         last_updated |-> s.last_updated])
        ELSE [st EXCEPT ![i] = [@ EXCEPT !.value = SqlAdd(@, s.add),
                                         !.last_updated = s.set_last_updated]]

\* the store after one prepared statement has run
ExecStatement(db, s) ==
    IF s.table = "events"
    THEN [db EXCEPT !.events = InsertEvent(@, s)]
    ELSE [db EXCEPT !.stats = UpsertStat(@, s)]

\* the store after statements lo..hi of a list have run, in order (the
\* first half is computed in full before the second half starts from it)
RECURSIVE ExecRange(_, _, _, _)
ExecRange(db, statements, lo, hi) ==
    IF lo > hi
    THEN db
    ELSE IF lo = hi
    THEN ExecStatement(db, statements[lo])
    ELSE LET mid == (lo + hi) \div 2
             half == ExecRange(db, statements, lo, mid)
         IN  IF Len(half.events) + Len(half.stats) >= 0
             THEN ExecRange(half, statements, mid + 1, hi)
             ELSE half

\* the store after running the first k statements of a list, in order
ExecPrefix(db, statements, k) == ExecRange(db, statements, 1, k)

\* db.batch(statements): one transaction.  k is the number of statements
\* the store executes before it fails; k = Len(statements) is a commit,
\* anything less rolls the whole batch back and the call throws.
BatchCommits(statements, k) == k = Len(statements)

\* the points at which the store is let fail: before the first statement,
\* after the first, midway, before the last; and not at all
StopPoints(statements) ==
    {k \in {0, 1, Len(statements) \div 2, Len(statements) - 1, Len(statements)} : k >= 0}

\* the statements run one by one outside a transaction: what ran before the
\* failure stays
DbBatchNoRollback(db, statements, k) == ExecPrefix(db, statements, k)

DbBatch(db, statements, k) ==
    IF BatchCommits(statements, k) THEN ExecPrefix(db, statements, k) ELSE db

\* SELECT value FROM stats WHERE app_id = ? AND metric = ?  (.first())
SelectStat(st, app_id, metric) ==
    LET i == StatIndex(st, app_id, metric)
    IN  IF i = 0 THEN Null ELSE st[i].value

(***************************************************************************)
(* Responses (utils.js errorResponse / successResponse).                   *)
(***************************************************************************)
\* message of the error the store throws when a statement or batch fails
StoreErrorMessage == "D1_ERROR: statement failed"

errorResponse(message, status, details) ==
    IF Truthy(details)
    THEN [status |-> status, error |-> message, details |-> details[2]]
    ELSE [status |-> status, error |-> message]

NoRequest == [kind |-> "none"]
NoResponse == [status |-> 0]

(***************************************************************************)
(* Requests.  A request carries the authenticated app_id, the parsed JSON  *)
(* body (data), the country Cloudflare attached to it (cf_country) and the *)
(* reading of the clock the handler takes (now, unix seconds).             *)
(***************************************************************************)
Apps == {"app1", "app2"}

\* bodies of POST /track
TrackBodies ==
    [event_type : {Str("purchase")},
     qualifier  : {Undefined, Str(""), Str("premium")},
     value      : {Undefined, Num(-1), Num(0)},
     category   : {Undefined},
     timestamp  : {Undefined},
     country    : {Undefined}]
    \cup
    [event_type : {Str("install")},
     qualifier  : {Null},
     value      : {Num(2)},
     category   : {Undefined},
     timestamp  : {Undefined},
     country    : {Undefined}]
    \cup
    [event_type : {Str("install")},
     qualifier  : {Null},
     value      : {Num(2)},
     category   : {Str("custom")},
     timestamp  : {Num(100)},
     country    : {Undefined}]
    \cup
    [event_type : {Undefined, Str("")},
     qualifier  : {Str("premium")},
     value      : {Num(2)},
     category   : {Undefined},
     timestamp  : {Undefined},
     country    : {Undefined}]

TrackRequests ==
    [kind : {"track"}, app_id : {"app1"}, data : TrackBodies,
     cf_country : {Null}, now : {200}]
    \cup
    [kind : {"track"}, app_id : {"app2"},
     data : {b \in TrackBodies : b.event_type = Str("install") /\ b.category = Undefined},
     cf_country : {Str("US")}, now : {200}]

\* the resolved fields of one event object: the destructuring with defaults
\* of handleTrackEvent (19-27) and of the batch loop (102-110)
EventFields(data, defaultTimestamp, defaultCountry) ==
    [event_type |-> data.event_type,
     qualifier  |-> Default(data.qualifier, Null),
     value      |-> Default(data.value, Num(1)),
     category   |-> Default(data.category, Null),
     timestamp  |-> Default(data.timestamp, Num(defaultTimestamp)),
     country    |-> Default(data.country, defaultCountry)]

\* `request.cf?.country || null`
RequestCountry(r) == IF Truthy(r.cf_country) THEN r.cf_country ELSE Null

\* `category || determineCategory(event_type)`
EventCategory(f) ==
    IF Truthy(f.category) THEN f.category[2] ELSE determineCategory(f.event_type[2])

\* the two statements the handlers build for one validated event
StatementsOf(app_id, f) ==
    createEventStatements(app_id, f.event_type[2], EventCategory(f), f.qualifier,
                          f.value, f.timestamp[2], f.country)

(***************************************************************************)
(* handleTrackEvent (POST /track).                                         *)
(***************************************************************************)
TrackFields(r) == EventFields(r.data, r.now, RequestCountry(r))

\* `result?.value || value`
CurrentValue(result, value) == IF Truthy(result) THEN result ELSE value

TrackSuccess(r, result) ==
    LET f == TrackFields(r)
    IN  [status |-> 200, success |-> TRUE, app_id |-> r.app_id,
         metric |-> buildMetricKey(f.event_type[2], f.qualifier),
         category |-> EventCategory(f),
         value |-> CurrentValue(result, f.value),
         timestamp |-> f.timestamp[2], country |-> f.country]

TrackFailure == errorResponse("Failed to track event", 500, Str(StoreErrorMessage))

\* the check written as `event_type === undefined`
TrackRejectionUndefinedOnly(r) ==
    IF r.data.event_type = Undefined
    THEN errorResponse("Missing event_type", 400, Null)
    ELSE NoResponse

\* lines 29-32: `if (!event_type)`; NoResponse if the request passes
TrackRejection(r) ==
    IF ~Truthy(r.data.event_type)
    THEN errorResponse("Missing event_type", 400, Null)
    ELSE NoResponse

\* a slot takes its request only after every earlier slot has taken one
\* (slots are numbered in the order the requests arrive)
Arrives(p) ==
    /\ pc[p] = "idle"
    /\ \A q \in Procs : q < p => pc[q] # "idle"

\* lines 16-43: parse, validate, build the statements, await db.batch
TrackSubmitOf(p, Requests) ==
    /\ Arrives(p)
    /\ UNCHANGED locals
    /\ \E r \in Requests :
         LET f == TrackFields(r)
         IN  /\ req' = [req EXCEPT ![p] = r]
             /\ IF TrackRejection(r) # NoResponse
                THEN /\ resp' = [resp EXCEPT ![p] = TrackRejection(r)]
                     /\ pc' = [pc EXCEPT ![p] = "done"]
                     /\ UNCHANGED <<events, stats>>
                ELSE LET statements == StatementsOf(r.app_id, f)
                     IN  \E k \in StopPoints(statements) :
                           LET db == DbBatch([events |-> events, stats |-> stats], statements, k)
                           IN  /\ events' = db.events
                               /\ stats' = db.stats
                               /\ IF BatchCommits(statements, k)
                                  THEN /\ pc' = [pc EXCEPT ![p] = "readback"]
                                       /\ UNCHANGED resp
                                  ELSE /\ pc' = [pc EXCEPT ![p] = "done"]
                                       /\ resp' = [resp EXCEPT ![p] = TrackFailure]

TrackSubmit(p) == TrackSubmitOf(p, TrackRequests)

\* lines 45-61: read the counter back and respond
TrackReadBack(p) ==
    /\ pc[p] = "readback"
    /\ req[p].kind = "track"
    /\ LET f == TrackFields(req[p])
           metric == buildMetricKey(f.event_type[2], f.qualifier)
       IN  \E ok \in BOOLEAN :
             /\ resp' = [resp EXCEPT ![p] =
                           IF ok
                           THEN TrackSuccess(req[p], SelectStat(stats, req[p].app_id, metric))
                           ELSE TrackFailure]
             /\ pc' = [pc EXCEPT ![p] = "done"]
             /\ UNCHANGED <<events, stats, req, locals>>

(***************************************************************************)
(* handleBatchTrackEvents (POST /track/batch).                             *)
(***************************************************************************)
\* `if (data.events.length > 100)`
MaxBatchSize == 100

\* event objects an ordinary batch is made of: one without event_type and
\* one that shares its counter with single-event requests
BatchItems ==
    { [event_type |-> Undefined, qualifier |-> Undefined, value |-> Num(2),
       category |-> Undefined, timestamp |-> Undefined, country |-> Undefined],
      [event_type |-> Str("purchase"), qualifier |-> Str("premium"), value |-> Num(2),
       category |-> Undefined, timestamp |-> Num(100), country |-> Undefined] }

RECURSIVE SeqsUpTo(_, _)
SeqsUpTo(S, n) ==
    IF n = 0
    THEN {<<>>}
    ELSE LET shorter == SeqsUpTo(S, n - 1)
         IN  shorter \cup {Append(q, x) : q \in {t \in shorter : Len(t) = n - 1}, x \in S}

Array(q) == <<"array", q>>
IsArray(v) == v[1] = "array"

BatchRequests ==
    [kind : {"batch"}, app_id : {"app1"},
     data : [events : {Undefined} \cup {Array(q) : q \in SeqsUpTo(BatchItems, MaxBatchLen)}],
     cf_country : {Null}, now : {200}]

\* fields of the i-th event object of a batch request
BatchFields(r, i) == EventFields(r.data.events[2][i], r.now, RequestCountry(r))

\* index of the first event object the loop rejects (`!event.event_type`),
\* 0 if the loop reaches the end of the array
FirstInvalid(r) ==
    LET evs == r.data.events[2]
        bad == {i \in 1..Len(evs) : ~Truthy(evs[i].event_type)}
    IN  IF bad = {} THEN 0 ELSE CHOOSE i \in bad : \A j \in bad : i <= j

\* number of event objects the loop has pushed statements and a result for
\* when it ends: all of them, or those in front of the rejected one
LoopIterations(r) ==
    IF FirstInvalid(r) = 0 THEN Len(r.data.events[2]) ELSE FirstInvalid(r) - 1

\* the loop that pushes the counter upsert of a metric key only for the
\* first event object of the batch that has the key
BatchStatementsOncePerKey(r, n) ==
    LET KeyOf(i) == buildMetricKey(BatchFields(r, i).event_type[2], BatchFields(r, i).qualifier)
        Pushed(j) == j % 2 = 1 \/ ~\E i \in 1..((j \div 2) - 1) : KeyOf(i) = KeyOf(j \div 2)
        sel[k \in 0..(2 * n)] ==
            IF k = 0
            THEN <<>>
            ELSE IF Pushed(k)
            THEN Append(sel[k - 1],
                        StatementsOf(r.app_id, BatchFields(r, (k + 1) \div 2))[2 - (k % 2)])
            ELSE sel[k - 1]
    IN  sel[2 * n]

\* `statements` after the first n iterations of the loop: iteration i
\* pushes the two statements of event object i (statements.push)
BatchStatements(r, n) ==
    [j \in 1..(2 * n) |->
        StatementsOf(r.app_id, BatchFields(r, (j + 1) \div 2))[2 - (j % 2)]]

\* `results` after the loop (results.push)
BatchResults(r) ==
    [i \in 1..LoopIterations(r) |->
        LET f == BatchFields(r, i)
        IN  [event_type |-> f.event_type[2], qualifier |-> f.qualifier,
             metric |-> buildMetricKey(f.event_type[2], f.qualifier),
             category |-> EventCategory(f), country |-> f.country]]

BatchSuccess(r) ==
    [status |-> 200, success |-> TRUE, app_id |-> r.app_id,
     processed |-> Len(BatchResults(r)), events |-> BatchResults(r)]

BatchFailure == errorResponse("Failed to track batch events", 500, Str(StoreErrorMessage))

\* the loop leaving at the first event object without event_type with a
\* `break`, so that the handler goes on to db.batch
BatchRejectionNoItemCheck(r) ==
    IF ~IsArray(r.data.events) \/ Len(r.data.events[2]) = 0
    THEN errorResponse("Missing or empty events array", 400, Null)
    ELSE IF Len(r.data.events[2]) > MaxBatchSize
    THEN errorResponse("Batch size exceeds maximum (100)", 400, Null)
    ELSE NoResponse

\* the size guard written with `>=`
BatchRejectionOffByOne(r) ==
    IF ~IsArray(r.data.events) \/ Len(r.data.events[2]) = 0
    THEN errorResponse("Missing or empty events array", 400, Null)
    ELSE IF Len(r.data.events[2]) >= MaxBatchSize
    THEN errorResponse("Batch size exceeds maximum (100)", 400, Null)
    ELSE IF FirstInvalid(r) # 0
    THEN errorResponse("Missing event_type in batch item", 400, Null)
    ELSE NoResponse

\* the guards in front of the loop (81-88) and the loop's own (98-100):
\* the 400 response the request gets, NoResponse if it gets none
BatchRejection(r) ==
    IF ~IsArray(r.data.events) \/ Len(r.data.events[2]) = 0
    THEN errorResponse("Missing or empty events array", 400, Null)
    ELSE IF Len(r.data.events[2]) > MaxBatchSize
    THEN errorResponse("Batch size exceeds maximum (100)", 400, Null)
    ELSE IF FirstInvalid(r) # 0
    THEN errorResponse("Missing event_type in batch item", 400, Null)
    ELSE NoResponse

\* lines 77-145: the whole handler; its only await on the store is db.batch
BatchTrackOf(p, Requests) ==
    /\ Arrives(p)
    /\ UNCHANGED locals
    /\ \E r \in Requests :
         /\ req' = [req EXCEPT ![p] = r]
         /\ pc' = [pc EXCEPT ![p] = "done"]
         /\ IF BatchRejection(r) # NoResponse
            THEN /\ resp' = [resp EXCEPT ![p] = BatchRejection(r)]
                 /\ UNCHANGED <<events, stats>>
            ELSE LET statements == BatchStatements(r, LoopIterations(r))
                 IN  \E k \in StopPoints(statements) :
                       LET db == DbBatch([events |-> events, stats |-> stats], statements, k)
                       IN  /\ events' = db.events
                           /\ stats' = db.stats
                           /\ resp' = [resp EXCEPT ![p] =
                                         IF BatchCommits(statements, k)
                                         THEN BatchSuccess(r)
                                         ELSE BatchFailure]

BatchTrack(p) == BatchTrackOf(p, BatchRequests)

Init ==
    /\ events = <<>>
    /\ stats = <<>>
    /\ pc = [p \in Procs |-> "idle"]
    /\ req = [p \in Procs |-> NoRequest]
    /\ resp = [p \in Procs |-> NoResponse]
    /\ locals = [p \in Procs |-> <<>>]

\* single-event requests only
Next ==
    \E p \in Procs :
        \/ TrackSubmit(p)
        \/ TrackReadBack(p)

Spec == Init /\ [][Next]_vars

(***************************************************************************)
(* Batch requests next to single-event requests on the batch's counter.    *)
(***************************************************************************)
TrackRequestsNextToBatches ==
    {r \in TrackRequests :
        /\ r.data.event_type = Str("purchase")
        /\ r.data.qualifier = Str("premium")
        /\ r.data.value # Num(0)}

TrackSubmitNextToBatches(p) == TrackSubmitOf(p, TrackRequestsNextToBatches)

NextBatch ==
    \E p \in Procs :
        \/ BatchTrack(p)
        \/ TrackSubmitNextToBatches(p)
        \/ TrackReadBack(p)

SpecBatch == Init /\ [][NextBatch]_vars

(***************************************************************************)
(* Batches at the size limit: every event object of the array is the same  *)
(* valid event, the array has MaxBatchSize or MaxBatchSize + 1 elements.   *)
(***************************************************************************)
CapItems ==
    { [event_type |-> Str("purchase"), qualifier |-> Str("premium"), value |-> Num(2),
       category |-> Undefined, timestamp |-> Num(100), country |-> Undefined],
      [event_type |-> Str("install"), qualifier |-> Undefined, value |-> Undefined,
       category |-> Undefined, timestamp |-> Undefined, country |-> Undefined] }

CapRequests ==
    [kind : {"batch"}, app_id : Apps,
     data : [events : {Array([i \in 1..n |-> item]) :
                          n \in {MaxBatchSize, MaxBatchSize + 1}, item \in CapItems}],
     cf_country : {Null}, now : {200}]

BatchTrackAtLimit(p) == BatchTrackOf(p, CapRequests)

NextCap == \E p \in Procs : BatchTrackAtLimit(p)

SpecCap == Init /\ [][NextCap]_vars

(***************************************************************************)
(* The Categorizer on its own: each slot is given an event type and applies *)
(* determineCategory to it.                                                 *)
(***************************************************************************)
\* the event types the Categorizer is applied to: the documented examples,
\* one string per rule and per keyword position, strings that match two
\* rules, and strings that differ from a keyword in case or by a prefix only
InitCategorize ==
    /\ events = <<>>
    /\ stats = <<>>
    /\ pc = [p \in Procs |-> "idle"]
    /\ req \in [Procs ->
                 [kind : {"categorize"},
                  eventType :
                 {"purchase_premium", "page_view", "random_xyz", "error_on_login",
                  "in_app_purchase", "payment_update", "my_subscription", "install",
                  "uninstall", "installed", "app_update", "screen_tap", "user_click",
                  "swipe_crash", "exception", "account_login", "Purchase", "PAGE_VIEW",
                  "Install", ""}]]
    /\ resp = [p \in Procs |-> NoResponse]
    /\ locals = [p \in Procs |-> <<>>]

\* one call of determineCategory(eventType)
Categorize(p) ==
    /\ pc[p] = "idle"
    /\ req[p].kind = "categorize"
    /\ resp' = [resp EXCEPT ![p] =
                  [status |-> 200, category |-> determineCategory(req[p].eventType)]]
    /\ pc' = [pc EXCEPT ![p] = "done"]
    /\ UNCHANGED <<events, stats, req, locals>>

NextCategorize == \E p \in Procs : Categorize(p)

SpecCategorize == InitCategorize /\ [][NextCategorize]_vars

(***************************************************************************)
(* Single-event requests that differ in the category the caller sends.      *)
(***************************************************************************)
TrackSubmitCategories(p) ==
    TrackSubmitOf(p,
      [kind : {"track"}, app_id : {"app1"},
       data : [event_type : {Str("install"), Str("page_view")},
               qualifier  : {Undefined},
               value      : {Undefined},
               category   : {Undefined, Null, Str(""), Str("custom")},
               timestamp  : {Undefined},
               country    : {Undefined}],
       cf_country : {Null}, now : {200}])

NextCategory ==
    \E p \in Procs :
        \/ TrackSubmitCategories(p)
        \/ TrackReadBack(p)

SpecCategory == Init /\ [][NextCategory]_vars

(***************************************************************************)
(* Strings of the query side: split, trim, parseInt and the order of       *)
(* strings by code unit (SQL ORDER BY under BINARY collation,              *)
(* Array.prototype.sort without a comparator).                             *)
(***************************************************************************)
Min(a, b) == IF a <= b THEN a ELSE b
Max(a, b) == IF a >= b THEN a ELSE b

\* position of the first occurrence of the character c in s at or after
\* position i, 0 if there is none
RECURSIVE IndexFrom(_, _, _)
IndexFrom(s, c, i) ==
    IF i > Len(s)
    THEN 0
    ELSE IF SubSeq(s, i, i) = c THEN i ELSE IndexFrom(s, c, i + 1)

\* String.prototype.split(sep), sep one character
RECURSIVE Split(_, _)
Split(s, sep) ==
    LET i == IndexFrom(s, sep, 1)
    IN  IF i = 0
        THEN <<s>>
        ELSE <<SubSeq(s, 1, i - 1)>> \o Split(SubSeq(s, i + 1, Len(s)), sep)

RECURSIVE TrimStart(_)
TrimStart(s) ==
    IF Len(s) > 0 /\ SubSeq(s, 1, 1) = " " THEN TrimStart(SubSeq(s, 2, Len(s))) ELSE s

RECURSIVE TrimEnd(_)
TrimEnd(s) ==
    IF Len(s) > 0 /\ SubSeq(s, Len(s), Len(s)) = " "
    THEN TrimEnd(SubSeq(s, 1, Len(s) - 1))
    ELSE s

\* number of digits s starts with
RECURSIVE DigitPrefixLen(_)
DigitPrefixLen(s) ==
    IF Len(s) > 0 /\ \E d \in 0..9 : ToString(d) = SubSeq(s, 1, 1)
    THEN 1 + DigitPrefixLen(SubSeq(s, 2, Len(s)))
    ELSE 0

\* the number a string of digits denotes
RECURSIVE StrToNat(_)
StrToNat(s) ==
    IF s = ""
    THEN 0
    ELSE 10 * StrToNat(SubSeq(s, 1, Len(s) - 1))
         + (CHOOSE d \in 0..9 : ToString(d) = SubSeq(s, Len(s), Len(s)))

NaN == <<"NaN">>

\* parseInt(s), radix 10: leading blanks, a sign, then digits up to the
\* first character that is not one; NaN if there is no digit
parseInt(s) ==
    LET t    == TrimStart(s)
        sign == IF Len(t) > 0 /\ SubSeq(t, 1, 1) \in {"-", "+"} THEN SubSeq(t, 1, 1) ELSE ""
        body == SubSeq(t, Len(sign) + 1, Len(t))
        n    == DigitPrefixLen(body)
    IN  IF n = 0
        THEN NaN
        ELSE Num((IF sign = "-" THEN -1 ELSE 1) * StrToNat(SubSeq(body, 1, n)))

\* the first position at or after i at which a and b differ (one of them
\* may end there)
RECURSIVE FirstDifference(_, _, _)
FirstDifference(a, b, i) ==
    IF i > Len(a) \/ i > Len(b) \/ SubSeq(a, i, i) # SubSeq(b, i, i)
    THEN i
    ELSE FirstDifference(a, b, i + 1)

\* a < b as strings compared code unit by code unit; CharOrder holds the
\* characters of the model's strings in the order of their code units
StrLess(a, b) ==
    LET CharOrder == " ,-.0123456789:ABCDEFGHIJKLMNOPQRSTUVWXYZ_abcdefghijklmnopqrstuvwxyz"
        i == FirstDifference(a, b, 1)
    IN  IF i > Len(b)
        THEN FALSE
        ELSE IF i > Len(a)
        THEN TRUE
        ELSE IndexFrom(CharOrder, SubSeq(a, i, i), 1) < IndexFrom(CharOrder, SubSeq(b, i, i), 1)

\* the strings of a set in ascending order
RECURSIVE SortStrings(_)
SortStrings(S) ==
    IF S = {}
    THEN <<>>
    ELSE LET m == CHOOSE x \in S : \A y \in S \ {x} : StrLess(x, y)
         IN  <<m>> \o SortStrings(S \ {m})

Reverse(q) == [i \in 1..Len(q) |-> q[Len(q) + 1 - i]]

\* `a || b` on query parameters (null or a string)
OrElse(v, dflt) == IF Truthy(v) THEN v ELSE dflt

(***************************************************************************)
(* Time: unix seconds to the UTC calendar (SQLite datetime(t,'unixepoch')  *)
(* and strftime, Date.prototype.toISOString) and back (new Date(string)).  *)
(***************************************************************************)
\* 60 * 60 * 24
SecondsPerDay == 86400
SecondsPerHour == 3600

\* proleptic Gregorian calendar: days since 1970-01-01 of a date
DaysFromCivil(y, m, d) ==
    LET yy  == IF m <= 2 THEN y - 1 ELSE y
        era == yy \div 400
        yoe == yy - era * 400
        mp  == IF m > 2 THEN m - 3 ELSE m + 9
        doy == (153 * mp + 2) \div 5 + d - 1
        doe == yoe * 365 + yoe \div 4 - yoe \div 100 + doy
    IN  era * 146097 + doe - 719468

\* strftime(format, datetime(t, 'unixepoch')) for the four formats of
\* getTimeGroupExpression and for '%Y-%m-%d %H:%M:%S', the format of
\* datetime(t, 'unixepoch').  %W is the week of the year, 00-53, weeks
\* starting on Monday, the days before the first Monday in week 00.
Strftime(format, t) ==
    LET Pad2(n) == IF n < 10 THEN "0" \o ToString(n) ELSE ToString(n)
        Pad4(n) == IF n < 10 THEN "000" \o ToString(n)
                   ELSE IF n < 100 THEN "00" \o ToString(n)
                   ELSE IF n < 1000 THEN "0" \o ToString(n)
                   ELSE ToString(n)
        days  == t \div SecondsPerDay
        secs  == t % SecondsPerDay
        \* the date of a day counted from 1970-01-01
        z     == days + 719468
        era   == z \div 146097
        doe   == z - era * 146097
        yoe   == (doe - doe \div 1460 + doe \div 36524 - doe \div 146096) \div 365
        doy   == doe - (365 * yoe + yoe \div 4 - yoe \div 100)
        mp    == (5 * doy + 2) \div 153
        day   == doy - (153 * mp + 2) \div 5 + 1
        month == IF mp < 10 THEN mp + 3 ELSE mp - 9
        year  == yoe + era * 400 + (IF month <= 2 THEN 1 ELSE 0)
        hour  == Pad2(secs \div SecondsPerHour)
        yday  == days - DaysFromCivil(year, 1, 1)
        wday  == (days + 4) % 7
        week  == (yday + 7 - ((wday + 6) % 7)) \div 7
        ymd   == Pad4(year) \o "-" \o Pad2(month) \o "-" \o Pad2(day)
    IN  IF format = "%Y-%m-%d %H:00:00" THEN ymd \o " " \o hour \o ":00:00"
        ELSE IF format = "%Y-%m-%d" THEN ymd
        ELSE IF format = "%Y-%W" THEN Pad4(year) \o "-" \o Pad2(week)
        ELSE IF format = "%Y-%m" THEN Pad4(year) \o "-" \o Pad2(month)
        ELSE ymd \o " " \o hour \o ":" \o Pad2((secs % SecondsPerHour) \div 60)
               \o ":" \o Pad2(secs % 60)

\* new Date(t * 1000).toISOString()
toISOString(t) ==
    LET datetime == Strftime("%Y-%m-%d %H:%M:%S", t)
    IN  SubSeq(datetime, 1, 10) \o "T" \o SubSeq(datetime, 12, 19) \o ".000Z"

\* utils parseDateParam(dateParam, daysAgo); now is Date.now() / 1000.
\* The parameter is a date-only string YYYY-MM-DD, which new Date() reads
\* as midnight UTC of that day.
parseDateParam(dateParam, daysAgo, now) ==
    IF Truthy(dateParam)
    THEN LET d == dateParam[2]
         IN  DaysFromCivil(StrToNat(SubSeq(d, 1, 4)), StrToNat(SubSeq(d, 6, 7)),
                           StrToNat(SubSeq(d, 9, 10))) * SecondsPerDay
    ELSE now - SecondsPerDay * daysAgo

\* utils getTimeGroupExpression(period): the strftime format of the SQL
\* expression, Null for a period that is none of the four
getTimeGroupExpressionDefaultsToDay(period) ==
    IF period = "hour" THEN Str("%Y-%m-%d %H:00:00")
    ELSE IF period = "week" THEN Str("%Y-%W")
    ELSE IF period = "month" THEN Str("%Y-%m")
    ELSE Str("%Y-%m-%d")

getTimeGroupExpression(period) ==
    IF period = "hour" THEN Str("%Y-%m-%d %H:00:00")
    ELSE IF period = "day" THEN Str("%Y-%m-%d")
    ELSE IF period = "week" THEN Str("%Y-%W")
    ELSE IF period = "month" THEN Str("%Y-%m")
    ELSE Null

(***************************************************************************)
(* handleTimeseriesQuery (GET /timeseries).  A request carries the query   *)
(* parameters as URLSearchParams.get returns them: null or a string.       *)
(***************************************************************************)
QueryPeriod(r) == OrElse(r.params.period, Str("day"))[2]
QueryLimit(r) == parseInt(OrElse(r.params.limit, Str("30"))[2])
QueryFrom(r) == parseDateParam(r.params.from, 30, r.now)
QueryTo(r) == parseDateParam(r.params.to, 0, r.now)
QueryTimeGroup(r) == getTimeGroupExpression(QueryPeriod(r))

\* metricsParam.split(',').map(m => m.trim()).filter(Boolean)
MetricsList(r) ==
    LET parts == Split(r.params.metrics[2], ",")
    IN  SelectSeq([i \in 1..Len(parts) |-> TrimEnd(TrimStart(parts[i]))], LAMBDA m : m # "")

\* the 400 response of lines 365-367, 378-380 and 391-393, NoResponse if
\* the request gets none
TimeseriesRejection(r) ==
    IF ~Truthy(r.params.metric) /\ ~Truthy(r.params.metrics)
    THEN errorResponse("Missing metric or metrics parameter", 400, Null)
    ELSE IF QueryTimeGroup(r) = Null
    THEN errorResponse("Invalid period parameter", 400, Null)
    ELSE IF ~Truthy(r.params.metric)
            /\ (Len(MetricsList(r)) < 1 \/ Len(MetricsList(r)) > 5)
    THEN errorResponse("Please provide between 1 and 5 metrics to compare", 400, Null)
    ELSE NoResponse

\* lines 420-426 and 492-498: `metric.split('.', 2)` when the metric has a
\* '.', else the metric with a null qualifier
SplitMetric(metric) ==
    IF Includes(metric, ".")
    THEN LET parts == SubSeq(Split(metric, "."), 1, 2)
         IN  [event_type |-> parts[1], qualifier |-> Str(parts[2])]
    ELSE [event_type |-> metric, qualifier |-> Null]

\* the WHERE clause without `qualifier IS NULL`: a metric without
\* qualifier takes the events of every qualifier
SeriesWhereAnyQualifier(e, app_id, event_type, qualifier, fromDate, toDate, country) ==
    /\ e.app_id = app_id
    /\ e.event_type = event_type
    /\ e.timestamp >= fromDate
    /\ e.timestamp <= toDate
    /\ (qualifier # Null => e.qualifier = qualifier)
    /\ (Truthy(country) => e.country = country)

\* the WHERE clause of lines 429-452 and 501-524 on an events row, with the
\* values bound to it
SeriesWhere(e, app_id, event_type, qualifier, fromDate, toDate, country) ==
    /\ e.app_id = app_id
    /\ e.event_type = event_type
    /\ e.timestamp >= fromDate
    /\ e.timestamp <= toDate
    /\ (IF qualifier # Null THEN e.qualifier = qualifier ELSE e.qualifier = Null)
    /\ (Truthy(country) => e.country = country)

\* sum of the non-null values of the rows with an index in I, up to row n
RECURSIVE SumValues(_, _, _)
SumValues(ev, I, n) ==
    IF n = 0
    THEN 0
    ELSE SumValues(ev, I, n - 1)
         + (IF n \in I /\ ev[n].value # Null THEN ev[n].value[2] ELSE 0)

\* SQL SUM(value) over the rows with an index in I: NULL if none of them
\* has a value
SqlSum(ev, I) ==
    IF \A i \in I : ev[i].value = Null THEN Null ELSE Num(SumValues(ev, I, Len(ev)))

\* SELECT <timeGroup> AS time_period, SUM(value) AS total FROM events
\* WHERE ... GROUP BY time_period ORDER BY time_period
MetricRows(ev, r, metric) ==
    LET format  == QueryTimeGroup(r)[2]
        fromDate == QueryFrom(r)
        toDate  == QueryTo(r)
        m       == SplitMetric(metric)
        matches == {i \in 1..Len(ev) :
                       SeriesWhere(ev[i], r.app_id, m.event_type, m.qualifier,
                                   fromDate, toDate, r.params.country)}
        grouped == {<<i, Strftime(format, ev[i].timestamp)>> : i \in matches}
        periods == SortStrings({g[2] : g \in grouped})
    IN  [k \in 1..Len(periods) |->
            [time_period |-> periods[k],
             total |-> SqlSum(ev, {g[1] : g \in {h \in grouped : h[2] = periods[k]}})]]

\* SQL LIMIT n: a negative n is no limit
SqlLimit(rows, n) == IF n < 0 THEN rows ELSE SubSeq(rows, 1, Min(n, Len(rows)))

\* the single-metric query reading `ORDER BY time_period LIMIT ?`: the
\* first buckets of the range
SingleSeriesDataFromStart(ev, r) ==
    SqlLimit(MetricRows(ev, r, r.params.metric[2]), QueryLimit(r)[2])

\* lines 454-468: ... ORDER BY time_period DESC LIMIT ?, then
\* results.reverse()
SingleSeriesData(ev, r) ==
    Reverse(SqlLimit(Reverse(MetricRows(ev, r, r.params.metric[2])), QueryLimit(r)[2]))

\* the `results` object after the loop iterations in `iterations`: one
\* property per metric, in the order the metrics were first assigned, each
\* holding the rows assigned last
ResultsObject(iterations) ==
    LET n      == Len(iterations)
        firsts == SelectSeq([i \in 1..n |-> i],
                            LAMBDA i : \A j \in 1..(i - 1) :
                                          iterations[j].metric # iterations[i].metric)
        last(metric) == CHOOSE i \in 1..n :
                           /\ iterations[i].metric = metric
                           /\ \A j \in (i + 1)..n : iterations[j].metric # metric
    IN  [k \in 1..Len(firsts) |->
            [metric |-> iterations[firsts[k]].metric,
             rows |-> iterations[last(iterations[firsts[k]].metric)].rows]]

\* lines 533-545: the union of the metrics' time periods, sorted, then
\* `slice(-limit)`
LimitedTimePeriods(results, limit) ==
    LET allTimePeriods ==
            UNION {{results[m].rows[k].time_period : k \in 1..Len(results[m].rows)} :
                     m \in 1..Len(results)}
        sorted == SortStrings(allTimePeriods)
        \* Array.prototype.slice(start) with start = -limit
        start  == 0 - limit
        k      == IF start < 0 THEN Max(Len(sorted) + start, 0) ELSE Min(start, Len(sorted))
    IN  SubSeq(sorted, k + 1, Len(sorted))

\* the rows of a metric for a time period: the row Array.prototype.find
\* returns, if any
FindDataPoint(rows, period) ==
    SelectSeq(rows, LAMBDA dp : dp.time_period = period)

\* the combined rows leaving out a metric that has no row for the period
CombinedDataSparse(results, limit) ==
    LET limited == LimitedTimePeriods(results, limit)
    IN  [i \in 1..Len(limited) |->
            [time_period |-> limited[i],
             totals |-> SelectSeq(
                 [m \in 1..Len(results) |->
                    LET found == FindDataPoint(results[m].rows, limited[i])
                    IN  [metric |-> results[m].metric,
                         total |-> IF found # <<>> THEN found[1].total ELSE Undefined]],
                 LAMBDA t : t.total # Undefined)]]

\* lines 547-557: one data point per retained time period, holding for
\* every metric of `results` its total or 0
CombinedData(results, limit) ==
    LET limited == LimitedTimePeriods(results, limit)
    IN  [i \in 1..Len(limited) |->
            [time_period |-> limited[i],
             totals |-> [m \in 1..Len(results) |->
                           LET found == FindDataPoint(results[m].rows, limited[i])
                           IN  [metric |-> results[m].metric,
                                total |-> IF found # <<>> THEN found[1].total
                                          ELSE Num(0)]]]]

\* The router returns the handler's promise and handleTimeseriesQuery
\* returns the promises of the two functions above without awaiting them,
\* so an error the store throws in them passes every catch block and the
\* Workers runtime answers the request itself.
WorkerException == [status |-> 500, error |-> "Worker threw exception"]

\* lines 357-397: the parameters, the checks, and for a single metric the
\* one query and the response of lines 461-469.  Outcomes says what the store may do with a
\* query: answer it (TRUE) or throw (FALSE).
TimeseriesQueryOf(p, Requests, Outcomes) ==
    /\ Arrives(p)
    /\ UNCHANGED <<events, stats>>
    /\ \E r \in Requests :
         /\ req' = [req EXCEPT ![p] = r]
         /\ IF TimeseriesRejection(r) # NoResponse
            THEN /\ resp' = [resp EXCEPT ![p] = TimeseriesRejection(r)]
                 /\ pc' = [pc EXCEPT ![p] = "done"]
                 /\ UNCHANGED locals
            ELSE IF Truthy(r.params.metric)
            THEN /\ \E ok \in Outcomes :
                      resp' = [resp EXCEPT ![p] =
                                 IF ok
                                 THEN [status |-> 200, app_id |-> r.app_id,
                                       metric |-> r.params.metric[2],
                                       period |-> QueryPeriod(r),
                                       from |-> toISOString(QueryFrom(r)),
                                       to |-> toISOString(QueryTo(r)),
                                       country |-> OrElse(r.params.country, Null),
                                       data |-> SingleSeriesData(events, r)]
                                 ELSE WorkerException]
                 /\ pc' = [pc EXCEPT ![p] = "done"]
                 /\ UNCHANGED locals
            ELSE /\ pc' = [pc EXCEPT ![p] = "metrics"]
                 /\ locals' = [locals EXCEPT ![p] = <<>>]
                 /\ UNCHANGED resp

\* lines 490-531: one iteration of the loop over the metrics, its query
\* awaited; after the last one, lines 533-568 and the response of lines
\* 560-568
MetricQueryOf(p, Outcomes) ==
    /\ pc[p] = "metrics"
    /\ UNCHANGED <<events, stats, req>>
    /\ LET r      == req[p]
           metric == MetricsList(r)[Len(locals[p]) + 1]
           iterations == Append(locals[p],
                                [metric |-> metric, rows |-> MetricRows(events, r, metric)])
       IN  \E ok \in Outcomes :
             IF ~ok
             THEN /\ resp' = [resp EXCEPT ![p] = WorkerException]
                  /\ pc' = [pc EXCEPT ![p] = "done"]
                  /\ UNCHANGED locals
             ELSE /\ locals' = [locals EXCEPT ![p] = iterations]
                  /\ IF Len(iterations) = Len(MetricsList(r))
                     THEN /\ resp' = [resp EXCEPT ![p] =
                                        [status |-> 200, app_id |-> r.app_id,
                                         metrics |-> MetricsList(r),
                                         period |-> QueryPeriod(r),
                                         from |-> toISOString(QueryFrom(r)),
                                         to |-> toISOString(QueryTo(r)),
                                         country |-> OrElse(r.params.country, Null),
                                         data |-> CombinedData(ResultsObject(iterations),
                                                               QueryLimit(r)[2])]]
                          /\ pc' = [pc EXCEPT ![p] = "done"]
                     ELSE UNCHANGED <<resp, pc>>

(***************************************************************************)
(* Timeseries queries over an event log written by batches.                *)
(***************************************************************************)
\* 2024-01-01T00:00:00Z, a Monday
Jan1 == 1704067200

\* the clock of the requests: 2024-01-06T01:00:00Z
SeriesNow == Jan1 + 5 * SecondsPerDay + SecondsPerHour

SeriesItem(event_type, qualifier, value, timestamp, country) ==
    [event_type |-> Str(event_type), qualifier |-> qualifier, value |-> value,
     category |-> Undefined, timestamp |-> Num(timestamp), country |-> country]

SeriesParams(metric, metrics, period, limit, from, to, country) ==
    [metric |-> metric, metrics |-> metrics, period |-> period, limit |-> limit,
     from |-> from, to |-> to, country |-> country]

\* a batch of app1 with page_view on five days in a row, click on the
\* second and third, page_view.home on the first and second, one page_view
\* from the US, one with an empty qualifier, three of the events at midnight
\* sharp; a batch of app2 with the same metrics; a batch of app1 with events
\* of the last hour of 2023 and of the first of February
BatchTrackSeries(p) ==
    BatchTrackOf(p,
      { [kind |-> "batch", app_id |-> "app1",
         data |-> [events |-> Array(
           <<SeriesItem("page_view", Undefined, Num(1), Jan1 + SecondsPerHour, Undefined),
             SeriesItem("page_view", Undefined, Num(2), Jan1 + SecondsPerDay, Undefined),
             SeriesItem("page_view", Undefined, Num(4), Jan1 + SecondsPerDay + 2 * SecondsPerHour, Str("US")),
             SeriesItem("page_view", Undefined, Num(1), Jan1 + 2 * SecondsPerDay + SecondsPerHour, Undefined),
             SeriesItem("page_view", Null, Num(1), Jan1 + 3 * SecondsPerDay, Undefined),
             SeriesItem("page_view", Undefined, Num(1), Jan1 + 4 * SecondsPerDay + 100, Undefined),
             SeriesItem("click", Undefined, Undefined, Jan1 + SecondsPerDay + 100, Undefined),
             SeriesItem("click", Undefined, Num(3), Jan1 + 2 * SecondsPerDay, Str("US")),
             SeriesItem("page_view", Str("home"), Num(5), Jan1 + 10, Undefined),
             SeriesItem("page_view", Str("home"), Num(6), Jan1 + SecondsPerDay + 10, Str("US")),
             SeriesItem("page_view", Str(""), Num(7), Jan1 + 2 * SecondsPerDay + 5, Undefined)>>)],
         cf_country |-> Null, now |-> SeriesNow],
        [kind |-> "batch", app_id |-> "app2",
         data |-> [events |-> Array(
           <<SeriesItem("page_view", Undefined, Num(100), Jan1 + SecondsPerDay, Undefined),
             SeriesItem("click", Undefined, Num(50), Jan1, Undefined)>>)],
         cf_country |-> Null, now |-> SeriesNow],
        [kind |-> "batch", app_id |-> "app1",
         data |-> [events |-> Array(
           <<SeriesItem("page_view", Undefined, Num(8), Jan1 - SecondsPerHour, Undefined),
             SeriesItem("page_view", Undefined, Num(9), Jan1 + 31 * SecondsPerDay, Undefined),
             SeriesItem("click", Undefined, Num(10), Jan1 - SecondsPerHour, Undefined)>>)],
         cf_country |-> Null, now |-> SeriesNow] })

\* queries over the five days with limit 0 and 2, on one metric, on two and
\* on a list of one; queries that differ in qualifier, country and range; a
\* query of app2.  The store answers every query of these requests.
TimeseriesRequests ==
    [kind : {"timeseries"}, app_id : {"app1"},
     params :
       {SeriesParams(t[1], t[2], Null, Str(limit), Str("2024-01-01"), Null, Null) :
           t \in {<<Str("page_view"), Null>>, <<Null, Str("page_view,click")>>,
                  <<Null, Str("page_view")>>},
           limit \in {"0", "2"}}
       \cup
       {SeriesParams(Str(metric), Null, Null, Null, Null, Null, Null) :
           metric \in {"page_view", "page_view.home", "page_view."}}
       \cup
       {SeriesParams(Str("page_view"), Null, Null, Null, Null, Null, Str("US")),
        SeriesParams(Str("page_view"), Null, Str("day"), Null,
                     Str("2024-01-02"), Str("2024-01-03"), Null),
        SeriesParams(Null, Str("page_view.home,click"), Null, Null, Null, Null, Null),
        SeriesParams(Null, Str("page_view.home,click,page_view"), Null, Null,
                     Str("2024-01-02"), Str("2024-01-03"), Str("US"))},
     now : {SeriesNow}]
    \cup
    [kind : {"timeseries"}, app_id : {"app2"},
     params : {SeriesParams(Str("page_view"), Null, Null, Null, Null, Null, Null)},
     now : {SeriesNow}]

TimeseriesQuery(p) == TimeseriesQueryOf(p, TimeseriesRequests, {TRUE})

MetricQueryAnswered(p) == MetricQueryOf(p, {TRUE})

NextSeries ==
    \E p \in Procs :
        \/ BatchTrackSeries(p)
        \/ TimeseriesQuery(p)
        \/ MetricQueryAnswered(p)

SpecSeries == Init /\ [][NextSeries]_vars

(***************************************************************************)
(* Timeseries queries that differ in their period, and queries that fail   *)
(* the other checks, over the same event log and a store that may fail.    *)
(***************************************************************************)
\* queries by hour, week and month and with a period that is none of the
\* four, over a range that holds every event; queries without a metric,
\* with no metric left after the split, with six
PeriodRequests ==
    [kind : {"timeseries"}, app_id : {"app1"},
     params :
       {SeriesParams(Str("page_view"), Null, Str(period), Null,
                     Str("2023-12-01"), Str("2024-03-01"), Null) :
           period \in {"hour", "week", "month", "year"}}
       \cup
       {SeriesParams(Null, Str("page_view, click"), Str(period), Null,
                     Str("2023-12-01"), Str("2024-03-01"), Null) :
           period \in {"week", "Day"}}
       \cup
       {SeriesParams(Str("page_view"), Null, Str(""), Null, Null, Null, Null),
        SeriesParams(Null, Null, Null, Null, Null, Null, Null),
        SeriesParams(Null, Null, Str("year"), Null, Null, Null, Null),
        SeriesParams(Null, Str(", ,"), Null, Null, Null, Null, Null),
        SeriesParams(Null, Str("a,b,c,d,e,f"), Null, Null, Null, Null, Null)},
     now : {SeriesNow}]

\* the store answers a query of these requests or throws
TimeseriesQueryPeriods(p) == TimeseriesQueryOf(p, PeriodRequests, BOOLEAN)

MetricQuery(p) == MetricQueryOf(p, BOOLEAN)

NextPeriod ==
    \E p \in Procs :
        \/ BatchTrackSeries(p)
        \/ TimeseriesQueryPeriods(p)
        \/ MetricQuery(p)

SpecPeriod == Init /\ [][NextPeriod]_vars

(***************************************************************************)
(* The queries of the stats, events and app handlers.  A query is a        *)
(* SELECT; what it returns is computed from the two tables.  Where SQL     *)
(* leaves the order of rows with equal sort keys open, every such order is *)
(* a possible result.                                                      *)
(***************************************************************************)
\* a character in lower case (ASCII)
LowerChar(c) ==
    LET i == IndexFrom("ABCDEFGHIJKLMNOPQRSTUVWXYZ", c, 1)
    IN  IF i = 0 THEN c ELSE SubSeq("abcdefghijklmnopqrstuvwxyz", i, i)

\* String.prototype.toLowerCase
RECURSIVE toLowerCase(_)
toLowerCase(s) ==
    IF s = "" THEN "" ELSE LowerChar(SubSeq(s, 1, 1)) \o toLowerCase(SubSeq(s, 2, Len(s)))

\* SQLite `s LIKE pattern`: % stands for any run of characters, _ for any
\* one character, letters match in either case
RECURSIVE Like(_, _)
Like(s, pattern) ==
    IF pattern = ""
    THEN s = ""
    ELSE LET c    == SubSeq(pattern, 1, 1)
             rest == SubSeq(pattern, 2, Len(pattern))
         IN  IF c = "%"
             THEN \E k \in 0..Len(s) : Like(SubSeq(s, k + 1, Len(s)), rest)
             ELSE IF s = ""
             THEN FALSE
             ELSE IF c = "_" \/ LowerChar(c) = LowerChar(SubSeq(s, 1, 1))
             THEN Like(SubSeq(s, 2, Len(s)), rest)
             ELSE FALSE

\* Math.min on numbers that may be NaN
MathMin(a, b) == IF a = NaN \/ b = NaN THEN NaN ELSE Num(Min(a[2], b[2]))

\* the place of an INTEGER column's value in ORDER BY: NULL before every
\* number
SortKey(v) == IF v = Null THEN <<0, 0>> ELSE <<1, v[2]>>

\* the sequences that hold every element of I once, in ascending order of
\* key[i]
RECURSIVE Orderings(_, _)
Orderings(I, key) ==
    IF I = {}
    THEN {<<>>}
    ELSE LET KeyLeq(a, b) == a[1] < b[1] \/ (a[1] = b[1] /\ a[2] <= b[2])
             least == {i \in I : \A j \in I : KeyLeq(key[i], key[j])}
         IN  UNION {{<<i>> \o rest : rest \in Orderings(I \ {i}, key)} : i \in least}

OrderingsDesc(I, key) == {Reverse(o) : o \in Orderings(I, key)}

\* `row.category || 'general'` on a TEXT column's value
OrGeneral(category) == IF category = "" THEN "general" ELSE category

\* the object a loop of assignments `obj[key(row)] = value(row)` over the
\* rows leaves: a property per key, holding what was assigned to it last
ObjectOf(keys, values) ==
    [k \in {keys[i] : i \in 1..Len(keys)} |->
        values[CHOOSE i \in 1..Len(keys) :
                   keys[i] = k /\ \A j \in (i + 1)..Len(keys) : keys[j] # k]]

\* SELECT category, <aggregate> FROM stats WHERE app_id = ? GROUP BY
\* category: the groups in the order of their category, each with the
\* indexes of its rows
CategoryGroups(st, app_id) ==
    LET mine == {i \in 1..Len(st) : st[i].app_id = app_id}
        cats == SortStrings({st[i].category : i \in mine})
    IN  [k \in 1..Len(cats) |->
            [category |-> cats[k], rows |-> {i \in mine : st[i].category = cats[k]}]]

(***************************************************************************)
(* getAppSummary (utils).                                                  *)
(***************************************************************************)
\* the four queries of getAppSummary, in the order it awaits them
SummaryQueries == <<"eventCount", "metricCount", "lastActivity", "categories">>

\* the object getAppSummary returns from the results of its four queries
AppSummary(app_id, answers) ==
    LET categories == answers[4]
    IN  [app_id |-> app_id,
         event_count |-> answers[1],
         metric_count |-> answers[2],
         last_activity |-> IF Truthy(answers[3]) THEN Str(toISOString(answers[3][2])) ELSE Null,
         categories |-> ObjectOf([k \in 1..Len(categories) |-> OrGeneral(categories[k].category)],
                                 [k \in 1..Len(categories) |-> categories[k].count])]

(***************************************************************************)
(* handleAppInfo (GET /apps, GET /app).                                    *)
(***************************************************************************)
AppView(r) == OrElse(r.params.view, Str("summary"))[2]

\* SELECT event_type, qualifier, event_category as category, country,
\* datetime(timestamp, 'unixepoch') as timestamp FROM events
\* WHERE app_id = ? ORDER BY timestamp DESC LIMIT 5
RecentEventsQuery(ev, app_id) ==
    LET mine == {i \in 1..Len(ev) : ev[i].app_id = app_id}
        key  == [i \in mine |-> <<1, ev[i].timestamp>>]
    IN  {[k \in 1..Min(5, Len(o)) |->
            [event_type |-> ev[o[k]].event_type, qualifier |-> ev[o[k]].qualifier,
             category |-> ev[o[k]].event_category, country |-> ev[o[k]].country,
             timestamp |-> Strftime("%Y-%m-%d %H:%M:%S", ev[o[k]].timestamp)]] : o \in OrderingsDesc(mine, key)}

\* SELECT COUNT(*) as count, SUM(value) as total_value FROM events
\* WHERE app_id = ? AND timestamp >= ?
RecentActivityQuery(ev, app_id, since) ==
    LET mine == {i \in 1..Len(ev) : ev[i].app_id = app_id /\ ev[i].timestamp >= since}
    IN  <<[count |-> Cardinality(mine), total_value |-> SqlSum(ev, mine)]>>

\* SELECT category, SUM(value) as total FROM stats WHERE app_id = ?
\* GROUP BY category ORDER BY total DESC
CategoryBreakdownQuery(st, app_id) ==
    LET groups == CategoryGroups(st, app_id)
        total  == [k \in 1..Len(groups) |-> SqlSum(st, groups[k].rows)]
        key    == [k \in 1..Len(groups) |-> SortKey(total[k])]
    IN  {[n \in 1..Len(o) |-> [category |-> groups[o[n]].category, total |-> total[o[n]]]] :
            o \in OrderingsDesc(1..Len(groups), key)}

\* SELECT country, COUNT(*) as event_count, SUM(value) as value_sum
\* FROM events WHERE app_id = ? AND country IS NOT NULL GROUP BY country
\* ORDER BY event_count DESC LIMIT 10
CountryBreakdownQuery(ev, app_id) ==
    LET mine      == {i \in 1..Len(ev) : ev[i].app_id = app_id /\ ev[i].country # Null}
        countries == {ev[i].country : i \in mine}
        rows(c)   == {i \in mine : ev[i].country = c}
        key       == [c \in countries |-> <<1, Cardinality(rows(c))>>]
    IN  {[n \in 1..Min(10, Len(o)) |->
            [country |-> o[n], event_count |-> Cardinality(rows(o[n])),
             value_sum |-> SqlSum(ev, rows(o[n]))]] : o \in OrderingsDesc(countries, key)}

\* lines 136-145; `recentActivity?.[0]?.count || 0`
DashboardResponse(r, answers) ==
    [status |-> 200, app_id |-> r.app_id,
     summary |-> AppSummary(r.app_id, answers),
     recent_activity |->
        [last_24h_events |-> answers[5][1].count,
         last_24h_value |-> OrElse(answers[5][1].total_value, Num(0))],
     categories |-> answers[6],
     top_countries |-> answers[7]]

\* lines 71-89: the app ids, or the summary of each of them
AppsListResponse(r, answers) ==
    LET appIds == answers[1]
    IN  IF r.params.stats # Str("true")
        THEN [status |-> 200, apps |-> appIds]
        ELSE [status |-> 200,
              apps |-> [k \in 1..Len(appIds) |->
                          AppSummary(appIds[k], SubSeq(answers, 4 * k - 2, 4 * k + 1))]]

(***************************************************************************)
(* handleStatsQuery (GET /stats).                                          *)
(***************************************************************************)
StatsView(r) == OrElse(r.params.view, Str("default"))[2]
UsePagination(r) == r.params.paginate = Str("true")

\* utils getPaginationParams
getPaginationParams(r) ==
    LET MathMax(a, b) == IF a = NaN \/ b = NaN THEN NaN ELSE Num(Max(a[2], b[2]))
        page     == MathMax(Num(1), parseInt(OrElse(r.params.page, Str("1"))[2]))
        pageSize == MathMin(Num(100),
                            MathMax(Num(1), parseInt(OrElse(r.params.pageSize, Str("20"))[2])))
    IN  [page |-> page, pageSize |-> pageSize,
         offset |-> IF page = NaN \/ pageSize = NaN THEN NaN
                    ELSE Num((page[2] - 1) * pageSize[2])]

\* the WHERE clause of lines 183-194 on a stats row
StatsWhere(row, app_id, prefix, category) ==
    /\ row.app_id = app_id
    /\ (Truthy(prefix) => Like(row.metric, prefix[2] \o "%"))
    /\ (Truthy(category) => row.category = category[2])

\* SELECT metric, value, category, last_updated FROM stats WHERE ...
\* ORDER BY metric [LIMIT ? OFFSET ?]
StatsRowsQuery(st, r) ==
    LET I       == {i \in 1..Len(st) :
                       StatsWhere(st[i], r.app_id, r.params.prefix, r.params.category)}
        metrics == SortStrings({st[i].metric : i \in I})
        rows    == [k \in 1..Len(metrics) |-> st[CHOOSE i \in I : st[i].metric = metrics[k]]]
        page    == getPaginationParams(r)
        kept    == IF UsePagination(r)
                   THEN SqlLimit(SubSeq(rows, Min(page.offset[2], Len(rows)) + 1, Len(rows)),
                                 page.pageSize[2])
                   ELSE rows
    IN  [k \in 1..Len(kept) |->
            [metric |-> kept[k].metric, value |-> kept[k].value,
             category |-> kept[k].category, last_updated |-> kept[k].last_updated]]

\* lines 220-260
StatsListResponse(r, answers) ==
    LET results    == answers[Len(answers)]
        totalCount == IF UsePagination(r) THEN answers[1] ELSE 0
        page       == getPaginationParams(r)
        formatted  == [k \in 1..Len(results) |->
                         [results[k] EXCEPT !.last_updated =
                             IF results[k].last_updated # 0
                             THEN Str(toISOString(results[k].last_updated))
                             ELSE Null]]
        filters    == [prefix |-> OrElse(r.params.prefix, Null),
                       category |-> OrElse(r.params.category, Null),
                       country |-> OrElse(r.params.country, Null)]
    IN  IF OrElse(r.params.format, Str("simple")) = Str("detailed")
        THEN IF UsePagination(r)
             THEN [status |-> 200, app_id |-> r.app_id, filters |-> filters,
                   data |-> formatted,
                   pagination |-> [page |-> page.page[2], pageSize |-> page.pageSize[2],
                                   totalItems |-> totalCount,
                                   totalPages |-> (totalCount + page.pageSize[2] - 1)
                                                     \div page.pageSize[2]]]
             ELSE [status |-> 200, app_id |-> r.app_id, filters |-> filters,
                   data |-> formatted]
        ELSE [status |-> 200,
              stats |-> ObjectOf([k \in 1..Len(results) |-> results[k].metric],
                                 [k \in 1..Len(results) |-> results[k].value])]

\* SELECT category, SUM(value) as total FROM stats WHERE app_id = ?
\* GROUP BY category
CategoryGroupingQuery(st, app_id) ==
    LET groups == CategoryGroups(st, app_id)
    IN  [k \in 1..Len(groups) |->
            [category |-> groups[k].category, total |-> SqlSum(st, groups[k].rows)]]

\* lines 305-307
TopLimit(r) == MathMin(Num(100), parseInt(OrElse(r.params.limit, Str("10"))[2]))
TopSort(r) ==
    IF r.params.sort # Null /\ toLowerCase(r.params.sort[2]) = "asc" THEN "ASC" ELSE "DESC"

\* SELECT metric, value, category, datetime(last_updated, 'unixepoch') as
\* last_updated FROM stats WHERE app_id = ? [AND category = ?]
\* ORDER BY value ASC|DESC LIMIT ?
TopMetricsQuery(st, r) ==
    LET I   == {i \in 1..Len(st) :
                   /\ st[i].app_id = r.app_id
                   /\ (Truthy(r.params.category) => st[i].category = r.params.category[2])}
        key == [i \in I |-> SortKey(st[i].value)]
        row(i) == [metric |-> st[i].metric, value |-> st[i].value,
                   category |-> st[i].category,
                   last_updated |-> Strftime("%Y-%m-%d %H:%M:%S", st[i].last_updated)]
    IN  {LET kept == SqlLimit(o, TopLimit(r)[2])
         IN  [k \in 1..Len(kept) |-> row(kept[k])] :
            o \in IF TopSort(r) = "ASC" THEN Orderings(I, key) ELSE OrderingsDesc(I, key)}

(***************************************************************************)
(* handleEventHistory (GET /events).                                       *)
(***************************************************************************)
\* lines 163-164
HistoryLimit(r) == MathMin(Num(100), parseInt(OrElse(r.params.limit, Str("50"))[2]))
HistoryFrom(r) == parseDateParam(r.params.from, 1, r.now)

\* SELECT id, event_type, event_category, qualifier, value, country,
\* datetime(timestamp, 'unixepoch') as timestamp FROM events WHERE ...
\* ORDER BY timestamp DESC LIMIT ?
EventHistoryQuery(ev, r) ==
    LET fromDate == HistoryFrom(r)
        I   == {i \in 1..Len(ev) :
                   /\ ev[i].app_id = r.app_id
                   /\ ev[i].timestamp >= fromDate
                   /\ (Truthy(r.params.type) => ev[i].event_type = r.params.type[2])
                   /\ (Truthy(r.params.category)
                         => ev[i].event_category = r.params.category[2])
                   /\ (Truthy(r.params.country) => ev[i].country = r.params.country)}
        key == [i \in I |-> <<1, ev[i].timestamp>>]
    IN  {LET kept == SqlLimit(o, HistoryLimit(r)[2])
         IN  [k \in 1..Len(kept) |->
                [id |-> ev[kept[k]].id, event_type |-> ev[kept[k]].event_type,
                 event_category |-> ev[kept[k]].event_category,
                 qualifier |-> ev[kept[k]].qualifier, value |-> ev[kept[k]].value,
                 country |-> ev[kept[k]].country,
                 timestamp |-> Strftime("%Y-%m-%d %H:%M:%S", ev[kept[k]].timestamp)]] :
            o \in OrderingsDesc(I, key)}

(***************************************************************************)
(* A read request as the list of the queries its handler awaits, one after *)
(* the other.  locals[p] holds the results of the queries answered so far.  *)
(***************************************************************************)
NoQuery == [name |-> "none"]

\* the query the handler of request r sends after the queries whose
\* results are in answers, NoQuery if it has all it needs
NextQuery(r, answers) ==
    LET n == Len(answers)
        QueryOn(name, app_id) == [name |-> name, app_id |-> app_id]
    IN  IF r.kind = "apps"
        THEN IF n = 0
             THEN QueryOn("apps", "")
             ELSE IF r.params.stats = Str("true") /\ n - 1 < 4 * Len(answers[1])
             THEN QueryOn(SummaryQueries[((n - 1) % 4) + 1], answers[1][((n - 1) \div 4) + 1])
             ELSE NoQuery
        ELSE IF r.kind = "app"
        THEN IF n < 4
             THEN QueryOn(SummaryQueries[n + 1], r.app_id)
             ELSE IF AppView(r) = "dashboard"
             THEN (IF n = 4 THEN QueryOn("recentActivity", r.app_id)
                   ELSE IF n = 5 THEN QueryOn("categoryBreakdown", r.app_id)
                   ELSE IF n = 6 THEN QueryOn("countryBreakdown", r.app_id)
                   ELSE NoQuery)
             ELSE (IF n = 4 THEN QueryOn("recentEvents", r.app_id) ELSE NoQuery)
        ELSE IF r.kind = "stats"
        THEN IF StatsView(r) = "category"
             THEN (IF n = 0 THEN QueryOn("categoryGrouping", r.app_id) ELSE NoQuery)
             ELSE IF StatsView(r) = "top"
             THEN (IF n = 0 THEN QueryOn("topMetrics", r.app_id) ELSE NoQuery)
             ELSE IF UsePagination(r) /\ n = 0
             THEN QueryOn("statsCount", r.app_id)
             ELSE IF n = (IF UsePagination(r) THEN 1 ELSE 0)
             THEN QueryOn("statsRows", r.app_id)
             ELSE NoQuery
        ELSE IF n = 0 THEN QueryOn("eventHistory", r.app_id) ELSE NoQuery

\* the queries of getAvailableApps and getAppSummary with the category
\* query reading `SELECT category, SUM(value) as count`
SummaryQueryResultSumsValues(db, q) ==
    LET ev == db.events
        st == db.stats
        appEvents == {i \in 1..Len(ev) : ev[i].app_id = q.app_id}
        groups == CategoryGroups(st, q.app_id)
    IN
    \* SELECT DISTINCT app_id FROM stats ORDER BY app_id
    IF q.name = "apps" THEN SortStrings({st[i].app_id : i \in 1..Len(st)})
    \* SELECT COUNT(*) as count FROM events WHERE app_id = ?
    ELSE IF q.name = "eventCount" THEN Cardinality(appEvents)
    \* SELECT COUNT(*) as count FROM stats WHERE app_id = ?
    ELSE IF q.name = "metricCount"
    THEN Cardinality({i \in 1..Len(st) : st[i].app_id = q.app_id})
    \* SELECT MAX(timestamp) as last_activity FROM events WHERE app_id = ?
    ELSE IF q.name = "lastActivity"
    THEN (IF appEvents = {}
          THEN Null
          ELSE Num(ev[CHOOSE i \in appEvents :
                         \A j \in appEvents : ev[i].timestamp >= ev[j].timestamp].timestamp))
    ELSE [k \in 1..Len(groups) |->
            [category |-> groups[k].category,
             count |-> SumValues(st, groups[k].rows, Len(st))]]

\* the result of the query of getAvailableApps and of each of the four
\* queries of getAppSummary
SummaryQueryResult(db, q) ==
    LET ev == db.events
        st == db.stats
        appEvents == {i \in 1..Len(ev) : ev[i].app_id = q.app_id}
        groups == CategoryGroups(st, q.app_id)
    IN
    \* SELECT DISTINCT app_id FROM stats ORDER BY app_id
    IF q.name = "apps" THEN SortStrings({st[i].app_id : i \in 1..Len(st)})
    \* SELECT COUNT(*) as count FROM events WHERE app_id = ?
    ELSE IF q.name = "eventCount" THEN Cardinality(appEvents)
    \* SELECT COUNT(*) as count FROM stats WHERE app_id = ?
    ELSE IF q.name = "metricCount"
    THEN Cardinality({i \in 1..Len(st) : st[i].app_id = q.app_id})
    \* SELECT MAX(timestamp) as last_activity FROM events WHERE app_id = ?
    ELSE IF q.name = "lastActivity"
    THEN (IF appEvents = {}
          THEN Null
          ELSE Num(ev[CHOOSE i \in appEvents :
                         \A j \in appEvents : ev[i].timestamp >= ev[j].timestamp].timestamp))
    \* SELECT category, COUNT(*) as count FROM stats WHERE app_id = ?
    \* GROUP BY category
    ELSE [k \in 1..Len(groups) |->
            [category |-> groups[k].category, count |-> Cardinality(groups[k].rows)]]

\* the results the store may return for a query
QueryResults(db, r, q) ==
    LET st == db.stats
    IN
    IF q.name \in {"apps"} \cup {SummaryQueries[k] : k \in 1..Len(SummaryQueries)}
    THEN {SummaryQueryResult(db, q)}
    ELSE IF q.name = "recentEvents" THEN RecentEventsQuery(db.events, q.app_id)
    ELSE IF q.name = "recentActivity"
    THEN {RecentActivityQuery(db.events, q.app_id, r.now - SecondsPerDay)}
    ELSE IF q.name = "categoryBreakdown" THEN CategoryBreakdownQuery(db.stats, q.app_id)
    ELSE IF q.name = "countryBreakdown" THEN CountryBreakdownQuery(db.events, q.app_id)
    \* SELECT COUNT(*) as count FROM stats WHERE ...  (line 204)
    ELSE IF q.name = "statsCount"
    THEN {Cardinality({i \in 1..Len(st) :
                          StatsWhere(st[i], r.app_id, r.params.prefix, r.params.category)})}
    ELSE IF q.name = "statsRows" THEN {StatsRowsQuery(db.stats, r)}
    ELSE IF q.name = "categoryGrouping" THEN {CategoryGroupingQuery(db.stats, q.app_id)}
    ELSE IF q.name = "topMetrics" THEN TopMetricsQuery(db.stats, r)
    ELSE EventHistoryQuery(db.events, r)

\* the event history query as a statement that also trims the log to the
\* range it reads
DbAfterQueryTrimsLog(db, r, q) ==
    IF q.name = "eventHistory"
    THEN [db EXCEPT !.events =
            SelectSeq(@, LAMBDA e : e.app_id # r.app_id \/ e.timestamp >= HistoryFrom(r))]
    ELSE db

\* the store after a query: every statement of these handlers is a SELECT
DbAfterQuery(db, r, q) == db

\* the response once every query is answered
ReadResponse(r, answers) ==
    IF r.kind = "apps" THEN AppsListResponse(r, answers)
    ELSE IF r.kind = "app"
    THEN (IF AppView(r) = "dashboard"
          THEN DashboardResponse(r, answers)
          \* handleAppInfo, lines 51-54
          ELSE LET summary == AppSummary(r.app_id, answers)
               IN  [status |-> 200, app_id |-> summary.app_id,
                    event_count |-> summary.event_count,
                    metric_count |-> summary.metric_count,
                    last_activity |-> summary.last_activity,
                    categories |-> summary.categories,
                    recent_events |-> answers[5]])
    ELSE IF r.kind = "stats"
    THEN (IF StatsView(r) = "category"
          \* handleCategoryGrouping, lines 278-290
          THEN LET results == answers[1]
               IN  [status |-> 200, app_id |-> r.app_id, groupBy |-> "category",
                    data |-> ObjectOf(
                        [k \in 1..Len(results) |-> OrGeneral(results[k].category)],
                        [k \in 1..Len(results) |-> results[k].total])]
          ELSE IF StatsView(r) = "top"
          \* handleTopMetrics, lines 329-334
          THEN [status |-> 200, app_id |-> r.app_id,
                category |-> OrElse(r.params.category, Str("all"))[2],
                sort |-> toLowerCase(TopSort(r)),
                metrics |-> answers[1]]
          ELSE StatsListResponse(r, answers))
    \* handleEventHistory, lines 198-203
    ELSE [status |-> 200, app_id |-> r.app_id,
          from |-> toISOString(HistoryFrom(r)),
          count |-> Len(answers[1]),
          events |-> answers[1]]

\* the response when a query throws.  handleAppInfo awaits the summary
\* view only, handleStatsQuery the default view only: the apps list, the
\* dashboard, the category and the top view are returned as promises, past
\* the catch blocks of the handler and of the router.
ReadFailure(r) ==
    IF r.kind = "apps" THEN WorkerException
    ELSE IF r.kind = "app"
    THEN (IF AppView(r) = "dashboard" THEN WorkerException
          ELSE errorResponse("Failed to retrieve app information", 500, Str(StoreErrorMessage)))
    ELSE IF r.kind = "stats"
    THEN (IF StatsView(r) \in {"category", "top"} THEN WorkerException
          ELSE errorResponse("Failed to retrieve stats", 500, Str(StoreErrorMessage)))
    ELSE errorResponse("Failed to retrieve event history", 500, Str(StoreErrorMessage))

\* one awaited query of slot p's read request r with the results so far in
\* answers.  getAvailableApps catches the error of its query and returns
\* no app; any other query that throws ends the request.
AwaitQuery(p, r, answers, Outcomes) ==
    LET q == NextQuery(r, answers)
        \* a LIMIT or OFFSET bound to NaN: the store refuses the statement
        BindsNaN ==
            \/ q.name = "topMetrics" /\ TopLimit(r) = NaN
            \/ q.name = "eventHistory" /\ HistoryLimit(r) = NaN
            \/ q.name = "statsRows" /\ UsePagination(r) /\ getPaginationParams(r).offset = NaN
    IN  \E ok \in Outcomes :
          IF ~ok \/ BindsNaN
          THEN /\ UNCHANGED <<events, stats>>
               /\ IF q.name = "apps"
                  THEN /\ locals' = [locals EXCEPT ![p] = <<<<>>>>]
                       /\ resp' = [resp EXCEPT ![p] = ReadResponse(r, <<<<>>>>)]
                       /\ pc' = [pc EXCEPT ![p] = "done"]
                  ELSE /\ locals' = [locals EXCEPT ![p] = answers]
                       /\ resp' = [resp EXCEPT ![p] = ReadFailure(r)]
                       /\ pc' = [pc EXCEPT ![p] = "done"]
          ELSE LET db    == [events |-> events, stats |-> stats]
                   after == DbAfterQuery(db, r, q)
               IN  /\ events' = after.events
                   /\ stats' = after.stats
                   /\ \E result \in QueryResults(db, r, q) :
                        LET now == Append(answers, result)
                        IN  /\ locals' = [locals EXCEPT ![p] = now]
                            /\ IF NextQuery(r, now) = NoQuery
                               THEN /\ resp' = [resp EXCEPT ![p] = ReadResponse(r, now)]
                                    /\ pc' = [pc EXCEPT ![p] = "done"]
                               ELSE /\ pc' = [pc EXCEPT ![p] = "reading"]
                                    /\ UNCHANGED resp

\* a read request arrives; its handler runs up to the answer of its first
\* query
ReadSubmitOf(p, Requests, Outcomes) ==
    /\ Arrives(p)
    /\ \E r \in Requests :
         /\ req' = [req EXCEPT ![p] = r]
         /\ AwaitQuery(p, r, <<>>, Outcomes)

\* the handler's next query is answered
ReadNextOf(p, Outcomes) ==
    /\ pc[p] = "reading"
    /\ UNCHANGED req
    /\ AwaitQuery(p, req[p], locals[p], Outcomes)

(***************************************************************************)
(* Every kind of read next to batches that write.                          *)
(***************************************************************************)
\* a batch of app1 with three kinds of revenue and engagement events, two
\* of them at the same second, two counters with the same value and an
\* install ten days old; a later batch of app1; a batch of app2
BatchTrackBesideReaders(p) ==
    BatchTrackOf(p,
      { [kind |-> "batch", app_id |-> "app1",
         data |-> [events |-> Array(
           <<SeriesItem("purchase", Str("premium"), Num(10), SeriesNow - SecondsPerHour, Str("US")),
             SeriesItem("purchase", Undefined, Num(5), SeriesNow - 2 * SecondsPerHour, Str("DE")),
             SeriesItem("page_view", Undefined, Num(1), SeriesNow - 2 * SecondsPerHour, Str("US")),
             SeriesItem("page_view", Str("home"), Num(5), SeriesNow - 3 * SecondsPerDay, Undefined),
             SeriesItem("install", Undefined, Num(1), SeriesNow - 10 * SecondsPerDay, Undefined)>>)],
         cf_country |-> Null, now |-> SeriesNow],
        [kind |-> "batch", app_id |-> "app1",
         data |-> [events |-> Array(
           <<SeriesItem("page_view", Undefined, Num(2), SeriesNow - 60, Str("DE")),
             SeriesItem("crash", Undefined, Undefined, SeriesNow - 30, Undefined)>>)],
         cf_country |-> Null, now |-> SeriesNow],
        [kind |-> "batch", app_id |-> "app2",
         data |-> [events |-> Array(
           <<SeriesItem("install", Undefined, Num(3), SeriesNow - SecondsPerHour, Str("US")),
             SeriesItem("click", Str("buy"), Num(3), SeriesNow - SecondsPerHour, Undefined)>>)],
         cf_country |-> Str("FR"), now |-> SeriesNow] })

\* one more page_view, recorded on its own
TrackSubmitBesideReaders(p) ==
    TrackSubmitOf(p,
      { [kind |-> "track", app_id |-> "app1",
         data |-> SeriesItem("page_view", Undefined, Num(4), SeriesNow - 10, Undefined),
         cf_country |-> Str("US"), now |-> SeriesNow] })

\* listStats (plain, and filtered, detailed and paginated), groupByCategory
\* and topMetrics; the event history; listApps without and with summaries,
\* summary and dashboard
ReadRequests ==
    LET StatsParams(view, prefix, format, paginate, page, pageSize, limit) ==
            [view |-> view, prefix |-> prefix, category |-> Null, country |-> Null,
             format |-> format, paginate |-> paginate, page |-> page,
             pageSize |-> pageSize, limit |-> limit, sort |-> Null]
    IN  [kind : {"stats"}, app_id : {"app1"},
         params : {StatsParams(Null, Null, Null, Null, Null, Null, Null),
                   StatsParams(Null, Str("page"), Str("detailed"), Str("true"),
                               Str("1"), Str("1"), Null),
                   StatsParams(Str("category"), Null, Null, Null, Null, Null, Null),
                   StatsParams(Str("top"), Null, Null, Null, Null, Null, Str("2"))},
         now : {SeriesNow}]
        \cup
        [kind : {"events"}, app_id : {"app1"},
         params : {[type |-> Null, category |-> Null, country |-> Null,
                    limit |-> Null, from |-> Null]},
         now : {SeriesNow}]
        \cup
        [kind : {"apps"}, app_id : {""},
         params : {[view |-> Null, stats |-> Null], [view |-> Null, stats |-> Str("true")]},
         now : {SeriesNow}]
        \cup
        [kind : {"app"}, app_id : {"app1"},
         params : {[view |-> Null, stats |-> Null],
                   [view |-> Str("dashboard"), stats |-> Null]},
         now : {SeriesNow}]

\* the store answers every query of these requests
ReadSubmit(p) == ReadSubmitOf(p, ReadRequests, {TRUE})
ReadNext(p) == ReadNextOf(p, {TRUE})

\* one timeseries query on one metric, one on two
TimeseriesQueryBesideReaders(p) ==
    TimeseriesQueryOf(p,
      [kind : {"timeseries"}, app_id : {"app1"},
       params : {SeriesParams(Str("page_view"), Null, Null, Null, Null, Null, Null),
                 SeriesParams(Null, Str("purchase,page_view"), Null, Null, Null, Null, Null)},
       now : {SeriesNow}],
      {TRUE})

NextReaders ==
    \E p \in Procs :
        \/ BatchTrackBesideReaders(p)
        \/ TrackSubmitBesideReaders(p)
        \/ TrackReadBack(p)
        \/ ReadSubmit(p)
        \/ ReadNext(p)
        \/ TimeseriesQueryBesideReaders(p)
        \/ MetricQueryAnswered(p)

SpecReaders == Init /\ [][NextReaders]_vars

(***************************************************************************)
(* Queries whose parameters are more than the plain ones: a limit below 1, *)
(* a prefix in capitals or with a `_`, a metric with two dots; and a       *)
(* record call whose value is null.                                         *)
(***************************************************************************)
\* a batch of app1: three counters under page_view, one of them with a
\* qualifier that holds a '.', the counter `pages`, and purchase with the
\* same value as page_view.home; a batch of app2
BatchTrackQueried(p) ==
    BatchTrackOf(p,
      { [kind |-> "batch", app_id |-> "app1",
         data |-> [events |-> Array(
           <<SeriesItem("page_view", Undefined, Num(3), SeriesNow - SecondsPerHour, Undefined),
             SeriesItem("page_view", Str("home"), Num(5), SeriesNow - SecondsPerHour, Undefined),
             SeriesItem("page_view", Str("home.x"), Num(2), SeriesNow - SecondsPerHour, Undefined),
             SeriesItem("pages", Undefined, Num(1), SeriesNow - SecondsPerHour, Undefined),
             SeriesItem("purchase", Undefined, Num(5), SeriesNow - 2 * SecondsPerHour, Undefined)>>)],
         cf_country |-> Null, now |-> SeriesNow],
        [kind |-> "batch", app_id |-> "app2",
         data |-> [events |-> Array(
           <<SeriesItem("page_view", Undefined, Num(7), SeriesNow - SecondsPerHour, Undefined)>>)],
         cf_country |-> Null, now |-> SeriesNow] })

\* record calls of app2 whose body holds `"value": null`, and one that
\* leaves the value out
TrackSubmitNullValue(p) ==
    TrackSubmitOf(p,
      [kind : {"track"}, app_id : {"app2"},
       data : [event_type : {Str("install")},
               qualifier  : {Undefined},
               value      : {Null, Undefined},
               category   : {Undefined},
               timestamp  : {Undefined},
               country    : {Undefined}],
       cf_country : {Null}, now : {SeriesNow}])

\* topMetrics with limit -1, 0, 1 and without, descending and ascending,
\* of every category and of one; listStats without filter, with the prefix
\* page, PAGE and page_, and with a prefix and a category
QueryRequests ==
    LET StatsParams(view, prefix, category, limit, sort) ==
            [view |-> view, prefix |-> prefix, category |-> category, country |-> Null,
             format |-> Null, paginate |-> Null, page |-> Null,
             pageSize |-> Null, limit |-> limit, sort |-> sort]
    IN  [kind : {"stats"}, app_id : {"app1"},
         params : {StatsParams(Str("top"), Null, Null, Str("-1"), Null),
                   StatsParams(Str("top"), Null, Null, Str("0"), Null),
                   StatsParams(Str("top"), Null, Null, Str("1"), Str("ASC")),
                   StatsParams(Str("top"), Null, Str("engagement"), Null, Str("asc")),
                   StatsParams(Null, Null, Null, Null, Null),
                   StatsParams(Null, Str("page"), Null, Null, Null),
                   StatsParams(Null, Str("PAGE"), Null, Null, Null),
                   StatsParams(Null, Str("page_"), Null, Null, Null),
                   StatsParams(Null, Str("p"), Str("revenue"), Null, Null)},
         now : {SeriesNow}]

\* the store answers every query of these requests
ReadSubmitQueries(p) == ReadSubmitOf(p, QueryRequests, {TRUE})

\* timeseries queries on a metric with one dot and with two, alone and in a
\* list
TimeseriesQueryDotted(p) ==
    TimeseriesQueryOf(p,
      [kind : {"timeseries"}, app_id : {"app1"},
       params : {SeriesParams(Str("page_view.home"), Null, Null, Null, Null, Null, Null),
                 SeriesParams(Str("page_view.home.x"), Null, Null, Null, Null, Null, Null),
                 SeriesParams(Null, Str("page_view.home.x,page_view"), Null, Null, Null, Null, Null)},
       now : {SeriesNow}],
      {TRUE})

NextQueries ==
    \E p \in Procs :
        \/ BatchTrackQueried(p)
        \/ TrackSubmitNullValue(p)
        \/ TrackReadBack(p)
        \/ ReadSubmitQueries(p)
        \/ TimeseriesQueryDotted(p)
        \/ MetricQueryAnswered(p)

SpecQueries == Init /\ [][NextQueries]_vars

(***************************************************************************)
(* Properties.                                                             *)
(***************************************************************************)
\* the counter an event row belongs to
EventKey(e) == buildMetricKey(e.event_type, e.qualifier)

\* SUM(value) over the event rows lo..hi of one app and one metric key
RECURSIVE EventSumRange(_, _, _, _, _)
EventSumRange(ev, app_id, metric, lo, hi) ==
    IF lo > hi
    THEN 0
    ELSE IF lo = hi
    THEN (IF ev[lo].app_id = app_id /\ EventKey(ev[lo]) = metric /\ ev[lo].value # Null
          THEN ev[lo].value[2]
          ELSE 0)
    ELSE LET mid == (lo + hi) \div 2
         IN  EventSumRange(ev, app_id, metric, lo, mid)
             + EventSumRange(ev, app_id, metric, mid + 1, hi)

EventSum(ev, app_id, metric, n) == EventSumRange(ev, app_id, metric, 1, n)

\* C1: counter consistency.  In every state, every Stat row's value is the
\* sum of the values of the Event rows of its app whose metric key is the
\* row's metric, and every Event row has its Stat row.
CounterConsistency ==
    /\ \A i \in 1..Len(stats) :
         stats[i].value = Num(EventSum(events, stats[i].app_id, stats[i].metric, Len(events)))
    /\ \A j \in 1..Len(events) :
         StatIndex(stats, events[j].app_id, EventKey(events[j])) # 0

\* two answered record calls on one counter, the second response reporting
\* twice the first call's value (999 then 1998 in the documented scenario)
CounterConsistencyWitness ==
    /\ Len(events) = 2
    /\ EventKey(events[1]) = "install" /\ EventKey(events[2]) = "install"
    /\ events[1].app_id = "app1" /\ events[2].app_id = "app1"
    /\ \E p, q \in Procs :
         /\ p # q
         /\ resp[p].status = 200 /\ resp[q].status = 200
         /\ req[p].kind = "track" /\ req[q].kind = "track"
         /\ resp[p].value = Num(2) /\ resp[q].value = Num(4)
    /\ SelectStat(stats, "app1", "install") = Num(4)

(***************************************************************************)
(* Helpers of the properties below.                                        *)
(***************************************************************************)
\* a counter's value as a number, 0 when the counter does not exist
StatValue(st, app_id, metric) ==
    LET v == SelectStat(st, app_id, metric)
    IN  IF v = Null THEN 0 ELSE v[2]

\* the (app_id, metric) pairs that occur in an event log or a stats table
KeysOf(ev, st) ==
    {<<ev[j].app_id, EventKey(ev[j])>> : j \in 1..Len(ev)}
    \cup {<<st[i].app_id, st[i].metric>> : i \in 1..Len(st)}

\* slot p takes a /track request in this step
TrackStep(p) == pc[p] = "idle" /\ pc'[p] # "idle" /\ req'[p].kind = "track"

\* slot p's /track request commits its batch in this step
TrackCommitStep(p) == TrackStep(p) /\ pc'[p] = "readback"

\* slot p handles a /track/batch request with an events array in this step
BatchStep(p) ==
    /\ pc[p] = "idle" /\ pc'[p] # "idle"
    /\ req'[p].kind = "batch"
    /\ IsArray(req'[p].data.events)

\* C2: the event insert and the counter upsert take effect together.  No
\* step removes an event row; in every step each counter changes by exactly
\* the sum of the values of the event rows the step appends for it, every
\* appended row has its counter row, and the stats table changes only in a
\* step that appends event rows.
EventWithCounter ==
    [][ /\ Len(events') >= Len(events)
        /\ \A key \in KeysOf(events', stats') :
             StatValue(stats', key[1], key[2]) - StatValue(stats, key[1], key[2])
               = EventSumRange(events', key[1], key[2], Len(events) + 1, Len(events'))
        /\ \A j \in (Len(events) + 1)..Len(events') :
             StatIndex(stats', events'[j].app_id, EventKey(events'[j])) # 0
        /\ (stats' # stats => Len(events') > Len(events)) ]_vars

\* a record call has committed its batch and has not answered yet, while
\* another request has not arrived: the event row and its counter are both
\* there for any reader
EventWithCounterWitness ==
    /\ pc[1] = "readback" /\ pc[2] = "idle"
    /\ Len(events) = 1 /\ Len(stats) = 1
    /\ stats[1].metric = EventKey(events[1])
    /\ stats[1].value = events[1].value
    /\ events[1].value = Num(-1)

\* value a call adds to one counter: the values of its event objects that
\* map to the counter
RECURSIVE CallValueUpTo(_, _, _, _)
CallValueUpTo(r, app_id, metric, n) ==
    IF n = 0
    THEN 0
    ELSE LET f == IF r.kind = "track" THEN TrackFields(r) ELSE BatchFields(r, n)
         IN  CallValueUpTo(r, app_id, metric, n - 1)
             + (IF r.app_id = app_id /\ buildMetricKey(f.event_type[2], f.qualifier) = metric
                THEN f.value[2]
                ELSE 0)

CallValue(r, app_id, metric) ==
    CallValueUpTo(r, app_id, metric,
                  IF r.kind = "track" THEN 1 ELSE Len(r.data.events[2]))

\* the slots whose batch has committed (no slot got a 500)
Committed == {p \in Procs : pc[p] = "readback" \/ resp[p].status = 200}

RECURSIVE CommittedSum(_, _, _)
CommittedSum(app_id, metric, n) ==
    IF n = 0
    THEN 0
    ELSE CommittedSum(app_id, metric, n - 1)
         + (IF n \in Committed THEN CallValue(req[n], app_id, metric) ELSE 0)

\* C3: no increment is lost.  As long as no call failed in the store, every
\* counter equals the sum of the values of all the calls that have
\* committed, however the calls interleave.
NoLostIncrement ==
    (\A p \in Procs : resp[p].status # 500)
    => \A key \in KeysOf(events, stats) :
         StatValue(stats, key[1], key[2]) = CommittedSum(key[1], key[2], NumProcs)

\* two record calls on one counter in flight at once, both committed, none
\* answered
NoLostIncrementWitness ==
    /\ pc[1] = "readback" /\ pc[2] = "readback"
    /\ req[1].kind = "track" /\ req[2].kind = "track"
    /\ req[1].app_id = req[2].app_id
    /\ req[1].data.qualifier = Str("premium") /\ req[2].data.qualifier = Str("premium")
    /\ req[1].data.value = Num(-1) /\ req[2].data.value = Undefined
    /\ Len(stats) = 1
    /\ stats[1].metric = "purchase.premium"
    /\ stats[1].value = Num(0)

BatchValidationWritesNothing ==
    [][ \A p \in Procs :
          (BatchStep(p) /\ FirstInvalid(req'[p]) # 0) =>
            /\ resp'[p].status = 400
            /\ pc'[p] = "done"
            /\ events' = events
            /\ stats' = stats ]_vars

\* a rejected batch whose first object is valid and whose second is not,
\* with both tables still empty
BatchValidationWritesNothingWitness ==
    \E p \in Procs :
        /\ pc[p] = "done" /\ req[p].kind = "batch"
        /\ IsArray(req[p].data.events)
        /\ FirstInvalid(req[p]) = 2
        /\ resp[p] = errorResponse("Missing event_type in batch item", 400, Null)
        /\ events = <<>> /\ stats = <<>>

\* C6: a batch of N valid event objects either commits whole (N event rows
\* appended, in the order of the array, answered 200) or, when the store
\* fails while executing it, leaves both tables as they were and is
\* answered 500.
BatchAllOrNothing ==
    [][ \A p \in Procs :
          (BatchStep(p) /\ Len(req'[p].data.events[2]) \in 1..MaxBatchSize
                        /\ FirstInvalid(req'[p]) = 0) =>
            LET n == Len(req'[p].data.events[2])
            IN  \/ /\ resp'[p].status = 200
                   /\ resp'[p].processed = n
                   /\ Len(events') = Len(events) + n
                   /\ SubSeq(events', 1, Len(events)) = events
                   /\ \A i \in 1..n :
                        /\ events'[Len(events) + i].event_type
                             = BatchFields(req'[p], i).event_type[2]
                        /\ events'[Len(events) + i].value = BatchFields(req'[p], i).value
                \/ /\ resp'[p].status = 500
                   /\ events' = events
                   /\ stats' = stats ]_vars

\* a batch of two valid event objects that failed in the store after
\* another call had committed: only the other call's rows are there
BatchAllOrNothingWitness ==
    /\ pc[1] = "readback"
    /\ pc[2] = "done" /\ req[2].kind = "batch"
    /\ IsArray(req[2].data.events)
    /\ Len(req[2].data.events[2]) = 2 /\ FirstInvalid(req[2]) = 0
    /\ resp[2].status = 500
    /\ Len(events) = 1 /\ Len(stats) = 1

\* C7: a batch of more than MaxBatchSize event objects is answered 400 and
\* writes nothing; a batch of exactly MaxBatchSize valid objects is accepted
\* and, unless the store fails, applied in full.
BatchSizeLimit ==
    /\ \A p \in Procs :
         pc[p] = "done" =>
           LET n == Len(req[p].data.events[2])
           IN  /\ n > MaxBatchSize =>
                    resp[p] = errorResponse("Batch size exceeds maximum (100)", 400, Null)
               /\ n = MaxBatchSize => resp[p].status \in {200, 500}
               /\ resp[p].status = 200 => resp[p].processed = MaxBatchSize
    /\ Len(events) = MaxBatchSize * Cardinality({p \in Procs : resp[p].status = 200})

\* one batch of MaxBatchSize + 1 objects rejected and one of MaxBatchSize
\* applied
BatchSizeLimitWitness ==
    \E p, q \in Procs :
        /\ pc[p] = "done" /\ pc[q] = "done"
        /\ Len(req[p].data.events[2]) = MaxBatchSize + 1
        /\ resp[p].status = 400
        /\ Len(req[q].data.events[2]) = MaxBatchSize
        /\ resp[q].status = 200
        /\ Len(events) = MaxBatchSize

\* C8: a record call without event_type, or with an empty one, is answered
\* 400 and writes nothing.
TrackValidationWritesNothing ==
    [][ \A p \in Procs :
          (TrackStep(p) /\ req'[p].data.event_type \in {Undefined, Null, Str("")}) =>
            /\ resp'[p] = errorResponse("Missing event_type", 400, Null)
            /\ pc'[p] = "done"
            /\ events' = events
            /\ stats' = stats ]_vars

\* one call with event_type missing and one with event_type empty, both
\* rejected, both tables empty
TrackValidationWritesNothingWitness ==
    \E p, q \in Procs :
        /\ req[p].kind = "track" /\ req[p].data.event_type = Undefined
        /\ req[q].kind = "track" /\ req[q].data.event_type = Str("")
        /\ resp[p].status = 400 /\ resp[q].status = 400
        /\ events = <<>> /\ stats = <<>>

\* C9 as claimed: the value a successful record call returns is the value
\* its counter holds when the call reads it back.
ReturnsCounterReadBack ==
    [][ \A p \in Procs :
          (pc[p] = "readback" /\ pc'[p] = "done" /\ resp'[p].status = 200) =>
            resp'[p].value = SelectStat(stats, req[p].app_id, resp'[p].metric) ]_vars

\* the metric key of section 3: event_type alone only for a null qualifier
KeyByNullCheck(event_type, qualifier) ==
    IF qualifier = Null THEN event_type ELSE event_type \o "." \o qualifier[2]

\* C10 as claimed: the counter an event updates is event_type for a null
\* qualifier and event_type.qualifier for every other qualifier, so every
\* event row has the Stat row of that key.
MetricKeyByNullCheck ==
    \A j \in 1..Len(events) :
        StatIndex(stats, events[j].app_id,
                  KeyByNullCheck(events[j].event_type, events[j].qualifier)) # 0

(***************************************************************************)
(* The Categorizer's rule table as section 4.1 lists it: each rule is the   *)
(* prefixes, the whole strings and the substrings it matches.               *)
(***************************************************************************)
CategoryRules ==
    <<[category |-> "revenue", starts |-> {"purchase"}, equals |-> {},
       contains |-> {"payment", "subscription"}],
      [category |-> "lifecycle", starts |-> {}, equals |-> {"install", "uninstall"},
       contains |-> {"update"}],
      [category |-> "engagement", starts |-> {}, equals |-> {},
       contains |-> {"view", "screen", "page"}],
      [category |-> "interaction", starts |-> {}, equals |-> {},
       contains |-> {"click", "tap", "swipe"}],
      [category |-> "error", starts |-> {}, equals |-> {},
       contains |-> {"error", "crash", "exception"}],
      [category |-> "user", starts |-> {}, equals |-> {},
       contains |-> {"user", "account", "login"}]>>

RuleMatches(rule, s) ==
    \/ \E x \in rule.starts : StartsWith(s, x)
    \/ s \in rule.equals
    \/ \E x \in rule.contains : Includes(s, x)

FirstMatchingCategory(s) ==
    LET hits == {i \in 1..Len(CategoryRules) : RuleMatches(CategoryRules[i], s)}
    IN  IF hits = {}
        THEN "general"
        ELSE CategoryRules[CHOOSE i \in hits : \A j \in hits : i <= j].category

\* C11: the Categorizer answers for every string, with the category of the
\* first rule of the table that matches the string as it is (no case
\* folding), and "general" when no rule matches; purchase_premium is
\* revenue, page_view engagement, random_xyz general, error_on_login error.
CategorizeFirstMatch ==
    \A p \in Procs :
        (pc[p] = "done" /\ req[p].kind = "categorize") =>
            LET s == req[p].eventType
                c == resp[p].category
            IN  /\ c = FirstMatchingCategory(s)
                /\ s = "purchase_premium" => c = "revenue"
                /\ s = "page_view" => c = "engagement"
                /\ s = "random_xyz" => c = "general"
                /\ s = "error_on_login" => c = "error"
                /\ s \in {"Purchase", "PAGE_VIEW", "Install", "installed", "in_app_purchase", ""}
                     => c = "general"

\* error_on_login categorized by the error rule and Purchase by no rule
CategorizeFirstMatchWitness ==
    \E p, q \in Procs :
        /\ pc[p] = "done" /\ pc[q] = "done"
        /\ req[p].kind = "categorize" /\ req[q].kind = "categorize"
        /\ req[p].eventType = "error_on_login" /\ resp[p].category = "error"
        /\ req[q].eventType = "Purchase" /\ resp[q].category = "general"

\* the category of section 4.3, `category ?? categorize(event_type)`: the
\* caller's unless the caller sent none (absent or null)
CategoryByNullCheck(data) ==
    IF data.category \in {Undefined, Null}
    THEN determineCategory(data.event_type[2])
    ELSE data.category[2]

\* C12 as claimed: a record call stores the caller's category whenever the
\* caller sent one (anything but null), and the Categorizer's only when the
\* caller sent none; that category is on the appended Event row, on the Stat
\* row the call creates, and in the response.
CallerCategoryStored ==
    [][ \A p \in Procs :
          /\ TrackCommitStep(p) =>
               LET c == CategoryByNullCheck(req'[p].data)
               IN  /\ events'[Len(events')].event_category = c
                   /\ Len(stats') > Len(stats) => stats'[Len(stats')].category = c
          /\ (pc[p] = "readback" /\ pc'[p] = "done" /\ resp'[p].status = 200) =>
               resp'[p].category = CategoryByNullCheck(req[p].data) ]_vars

(***************************************************************************)
(* Helpers of the timeseries properties.                                    *)
(***************************************************************************)
\* slot p answers a single-metric timeseries query with a series in this step
SingleSeriesStep(p) ==
    /\ pc[p] = "idle" /\ pc'[p] = "done"
    /\ req'[p].kind = "timeseries"
    /\ resp'[p].status = 200

\* slot p gets the rows of one more metric of its multi-metric query in this
\* step
MetricQueryStep(p) ==
    /\ pc[p] = "metrics"
    /\ Len(locals'[p]) = Len(locals[p]) + 1

\* the events that may contribute to the series of a metric under request r:
\* those of the request's app and of the metric's event type, with no
\* qualifier if the metric names none and with the metric's qualifier if it
\* names one, with a timestamp from `from` to `to`, both included, and from
\* the request's country if it names one
Contributing(ev, r, metric) ==
    LET m        == SplitMetric(metric)
        fromDate == QueryFrom(r)
        toDate   == QueryTo(r)
    IN  {i \in 1..Len(ev) :
            /\ ev[i].app_id = r.app_id
            /\ ev[i].event_type = m.event_type
            /\ ev[i].qualifier = m.qualifier
            /\ fromDate <= ev[i].timestamp
            /\ ev[i].timestamp <= toDate
            /\ (r.params.country \notin {Null, Str("")} => ev[i].country = r.params.country)}

\* the bucket of an event row under the period of request r
BucketOf(e, r) == Strftime(QueryTimeGroup(r)[2], e.timestamp)

\* a returned row holds the sum of the values of the contributing events of
\* its bucket, of which there is at least one
RowSumsContributing(ev, r, metric, row) ==
    LET I == {i \in Contributing(ev, r, metric) : BucketOf(ev[i], r) = row.time_period}
    IN  /\ I # {}
        /\ row.total = Num(SumValues(ev, I, Len(ev)))

\* C13: in a timeseries query every returned bucket of a metric holds the
\* sum of the values of exactly the events of the requested app and event
\* type whose qualifier is null when the metric has no qualifier, and is the
\* metric's qualifier when it has one, whose timestamp lies in [from, to]
\* and whose country is the requested one, if one is requested; an event
\* with another qualifier never counts.
SeriesCountsMatchingEvents ==
    [][ \A p \in Procs :
          /\ SingleSeriesStep(p) =>
               \A k \in 1..Len(resp'[p].data) :
                   RowSumsContributing(events, req'[p], req'[p].params.metric[2],
                                       resp'[p].data[k])
          /\ MetricQueryStep(p) =>
               LET it == locals'[p][Len(locals'[p])]
               IN  \A k \in 1..Len(it.rows) :
                       RowSumsContributing(events, req[p], it.metric, it.rows[k]) ]_vars

\* page_view queried without qualifier over five days on which page_view
\* events with the qualifier home and with an empty qualifier were recorded
\* too: the first day counts 1 (not 6), the third 1 (not 8)
SeriesCountsMatchingEventsWitness ==
    \E p \in Procs :
        /\ pc[p] = "done" /\ req[p].kind = "timeseries"
        /\ req[p].app_id = "app1"
        /\ req[p].params = SeriesParams(Str("page_view"), Null, Null, Null, Null, Null, Null)
        /\ resp[p].status = 200
        /\ Len(resp[p].data) = 5
        /\ resp[p].data[1] = [time_period |-> "2024-01-01", total |-> Num(1)]
        /\ resp[p].data[2] = [time_period |-> "2024-01-02", total |-> Num(6)]
        /\ resp[p].data[3] = [time_period |-> "2024-01-03", total |-> Num(1)]
        /\ \E j \in 1..Len(events) :
             /\ events[j].app_id = "app1" /\ events[j].event_type = "page_view"
             /\ events[j].qualifier = Str("home") /\ events[j].timestamp = Jan1 + 10

\* the timestamps of the contributing events of a bucket
BucketTimes(ev, r, metric, period) ==
    {ev[i].timestamp : i \in {j \in Contributing(ev, r, metric) : BucketOf(ev[j], r) = period}}

\* bucket a lies before bucket b: every event of a is older than every event
\* of b
BucketBefore(ev, r, metric, a, b) ==
    \A s \in BucketTimes(ev, r, metric, a) :
        \A t \in BucketTimes(ev, r, metric, b) : s < t

\* the buckets a metric has events in under request r
Populated(ev, r, metric) == {BucketOf(ev[i], r) : i \in Contributing(ev, r, metric)}

\* C14: a single-metric query with limit n >= 0 returns min(n, number of
\* populated buckets) buckets, in ascending chronological order, and every
\* populated bucket it leaves out is older than every bucket it returns.
SingleSeriesLatestAscending ==
    [][ \A p \in Procs :
          (SingleSeriesStep(p) /\ QueryLimit(req'[p])[2] >= 0) =>
            LET r        == req'[p]
                metric   == r.params.metric[2]
                data     == resp'[p].data
                returned == {data[k].time_period : k \in 1..Len(data)}
                all      == Populated(events, r, metric)
            IN  /\ Len(data) = Min(QueryLimit(r)[2], Cardinality(all))
                /\ returned \subseteq all
                /\ \A i, j \in 1..Len(data) :
                     i < j => BucketBefore(events, r, metric,
                                           data[i].time_period, data[j].time_period)
                /\ \A a \in all \ returned :
                     \A b \in returned : BucketBefore(events, r, metric, a, b) ]_vars

\* limit=2 over five populated daily buckets: the fourth and the fifth day,
\* in this order
SingleSeriesLatestAscendingWitness ==
    \E p \in Procs :
        /\ pc[p] = "done" /\ req[p].kind = "timeseries"
        /\ req[p].params.metric = Str("page_view")
        /\ req[p].params.limit = Str("2")
        /\ resp[p].status = 200
        /\ Cardinality(Populated(events, req[p], "page_view")) = 5
        /\ resp[p].data = <<[time_period |-> "2024-01-04", total |-> Num(1)],
                            [time_period |-> "2024-01-05", total |-> Num(1)]>>

\* slot p has answered a multi-metric query with a table
MultiSeriesDone(p) ==
    /\ pc[p] = "done" /\ req[p].kind = "timeseries"
    /\ ~Truthy(req[p].params.metric)
    /\ resp[p].status = 200

\* the bucket keys of the rows the queries of slot p returned, all metrics
\* together
UnionPeriods(p) ==
    UNION {{locals[p][m].rows[k].time_period : k \in 1..Len(locals[p][m].rows)} :
             m \in 1..Len(locals[p])}

\* the metrics slot p's request names
Requested(p) == {MetricsList(req[p])[i] : i \in 1..Len(MetricsList(req[p]))}

\* every row of the table of slot p holds one value for every requested
\* metric: the total of the metric's row for the bucket, and 0 if the metric
\* has no row for it
RowsAreDense(p) ==
    \A i \in 1..Len(resp[p].data) :
        LET row == resp[p].data[i]
        IN  /\ {row.totals[m].metric : m \in 1..Len(row.totals)} = Requested(p)
            /\ Len(row.totals) = Cardinality(Requested(p))
            /\ \A m \in 1..Len(row.totals) :
                 LET has == {it \in 1..Len(locals[p]) :
                               /\ locals[p][it].metric = row.totals[m].metric
                               /\ \E k \in 1..Len(locals[p][it].rows) :
                                    locals[p][it].rows[k].time_period = row.time_period}
                 IN  IF has = {}
                     THEN row.totals[m].total = Num(0)
                     ELSE \E it \in has : \E k \in 1..Len(locals[p][it].rows) :
                            /\ locals[p][it].rows[k].time_period = row.time_period
                            /\ locals[p][it].rows[k].total = row.totals[m].total

\* C15 as claimed: a multi-metric query returns one row per bucket key of
\* the union of the metrics' bucket keys, each row holding a value for every
\* requested metric, 0 where the metric has nothing in the bucket.
DenseOverUnion ==
    \A p \in Procs :
        MultiSeriesDone(p) =>
            /\ {resp[p].data[i].time_period : i \in 1..Len(resp[p].data)} = UnionPeriods(p)
            /\ Len(resp[p].data) = Cardinality(UnionPeriods(p))
            /\ RowsAreDense(p)

\* C15 as amended: a multi-metric query returns at most one row per bucket
\* key of the union of the metrics' bucket keys, and one for every key of
\* the union when the union has no more than `limit` keys; each returned row
\* holds a value for every requested metric, 0 where the metric has nothing
\* in the bucket.
DenseWithinLimit ==
    \A p \in Procs :
        MultiSeriesDone(p) =>
            LET keys == {resp[p].data[i].time_period : i \in 1..Len(resp[p].data)}
            IN  /\ keys \subseteq UnionPeriods(p)
                /\ Len(resp[p].data) = Cardinality(keys)
                /\ Cardinality(UnionPeriods(p)) <= QueryLimit(req[p])[2]
                     => keys = UnionPeriods(p)
                /\ RowsAreDense(p)

\* page_view.home with events on the first and second day, click on the
\* second and third: three rows, each with both metrics, 0 for click on the
\* first day and for page_view.home on the third
DenseWithinLimitWitness ==
    \E p \in Procs :
        /\ MultiSeriesDone(p)
        /\ req[p].params.metrics = Str("page_view.home,click")
        /\ resp[p].data =
             <<[time_period |-> "2024-01-01",
                totals |-> <<[metric |-> "page_view.home", total |-> Num(5)],
                             [metric |-> "click", total |-> Num(0)]>>],
               [time_period |-> "2024-01-02",
                totals |-> <<[metric |-> "page_view.home", total |-> Num(6)],
                             [metric |-> "click", total |-> Num(1)]>>],
               [time_period |-> "2024-01-03",
                totals |-> <<[metric |-> "page_view.home", total |-> Num(0)],
                             [metric |-> "click", total |-> Num(3)]>>]>>

\* C16 as claimed: a multi-metric query with limit n >= 0 returns exactly
\* min(n, number of bucket keys in the union) rows, in ascending order, and
\* every bucket key it leaves out is smaller than every one it returns.
MultiSeriesLastLimit ==
    \A p \in Procs :
        (MultiSeriesDone(p) /\ QueryLimit(req[p])[2] >= 0) =>
            LET data == resp[p].data
                keys == {data[i].time_period : i \in 1..Len(data)}
            IN  /\ Len(data) = Min(QueryLimit(req[p])[2], Cardinality(UnionPeriods(p)))
                /\ keys \subseteq UnionPeriods(p)
                /\ \A i, j \in 1..Len(data) :
                     i < j => StrLess(data[i].time_period, data[j].time_period)
                /\ \A a \in UnionPeriods(p) \ keys : \A b \in keys : StrLess(a, b)

\* C17: a timeseries query that names a period other than hour, day, week
\* and month is answered 400, with no series and without a query to the
\* store, whether it names one metric or several; if it names a metric at
\* all the answer is `Invalid period parameter`.
UnknownPeriodRejected ==
    \A p \in Procs :
        (pc[p] # "idle" /\ req[p].kind = "timeseries"
           /\ Truthy(req[p].params.period)
           /\ req[p].params.period[2] \notin {"hour", "day", "week", "month"}) =>
            /\ pc[p] = "done"
            /\ resp[p].status = 400
            /\ "data" \notin DOMAIN resp[p]
            /\ locals[p] = <<>>
            /\ (Truthy(req[p].params.metric) \/ Truthy(req[p].params.metrics))
                 => resp[p] = errorResponse("Invalid period parameter", 400, Null)

\* period=year for one metric and period=Day for two, both rejected, after a
\* batch of events for the metrics has been recorded
UnknownPeriodRejectedWitness ==
    \E p, q \in Procs :
        /\ pc[p] = "done" /\ pc[q] = "done"
        /\ req[p].kind = "timeseries" /\ req[q].kind = "timeseries"
        /\ req[p].params.metric = Str("page_view") /\ req[p].params.period = Str("year")
        /\ req[q].params.metrics = Str("page_view, click") /\ req[q].params.period = Str("Day")
        /\ resp[p] = errorResponse("Invalid period parameter", 400, Null)
        /\ resp[q] = errorResponse("Invalid period parameter", 400, Null)

(***************************************************************************)
(* Re-sending an event.                                                    *)
(***************************************************************************)
\* the event row a /track request describes, apart from its id
RowOfCall(r) ==
    LET f == TrackFields(r)
    IN  [app_id |-> r.app_id, event_type |-> f.event_type[2],
         event_category |-> EventCategory(f), qualifier |-> f.qualifier,
         value |-> f.value, timestamp |-> f.timestamp[2], country |-> f.country]

\* the columns of an event row apart from its id
WithoutId(e) ==
    [app_id |-> e.app_id, event_type |-> e.event_type,
     event_category |-> e.event_category, qualifier |-> e.qualifier,
     value |-> e.value, timestamp |-> e.timestamp, country |-> e.country]

\* C18: record is not idempotent.  Every record call that commits appends
\* one event row of its own, whether or not an equal row is already in the
\* log, and adds its value to its counter once more; a call that fails in
\* the store ends with its error and writes nothing, no step other than a
\* committing call writes, and a call that has ended never runs again.
RecordNotIdempotent ==
    [][ \A p \in Procs :
          /\ TrackCommitStep(p) =>
               LET row == RowOfCall(req'[p])
                   metric == buildMetricKey(row.event_type, row.qualifier)
               IN  /\ Len(events') = Len(events) + 1
                   /\ SubSeq(events', 1, Len(events)) = events
                   /\ WithoutId(events'[Len(events')]) = row
                   /\ StatValue(stats', row.app_id, metric)
                        = StatValue(stats, row.app_id, metric) + row.value[2]
          /\ (TrackStep(p) /\ ~TrackCommitStep(p)) =>
               /\ events' = events /\ stats' = stats
               /\ pc'[p] = "done" /\ resp'[p].status \in {400, 500}
          /\ ((\A q \in Procs : ~TrackCommitStep(q)) => events' = events /\ stats' = stats)
          /\ (pc[p] = "done" => pc'[p] = "done" /\ req'[p] = req[p]) ]_vars

\* the same request submitted twice, with the timestamp in its body: two
\* equal event rows and the counter at twice the value
RecordNotIdempotentWitness ==
    /\ req[1].kind = "track" /\ req[2] = req[1]
    /\ req[1].data.timestamp = Num(100)
    /\ resp[1].status = 200 /\ resp[2].status = 200
    /\ Len(events) = 2
    /\ WithoutId(events[1]) = WithoutId(events[2])
    /\ events[1].id # events[2].id
    /\ Len(stats) = 1
    /\ stats[1].value = Num(2 * events[1].value[2])
    /\ events[1].value = Num(2)

(***************************************************************************)
(* The two tables over time.                                               *)
(***************************************************************************)
\* C19: the tables only grow.  Every step keeps every event row as it is
\* and at its place, appending new ones at most; it keeps every stat row
\* with its id and its (app_id, metric) key, so that no key ever leaves the
\* stats table; and the stats table it leaves has one row per key at most.
TablesOnlyGrow ==
    [][ /\ Len(events') >= Len(events)
        /\ SubSeq(events', 1, Len(events)) = events
        /\ Len(stats') >= Len(stats)
        /\ \A i \in 1..Len(stats) :
             /\ stats'[i].id = stats[i].id
             /\ stats'[i].app_id = stats[i].app_id
             /\ stats'[i].metric = stats[i].metric
        /\ \A i, j \in 1..Len(stats') :
             (stats'[i].app_id = stats'[j].app_id /\ stats'[i].metric = stats'[j].metric)
               => i = j ]_vars

\* two committed batches of one app: the second one found the page_view
\* counter of the first, added to it, and added a counter of its own
TablesOnlyGrowWitness ==
    /\ Len(events) = 7
    /\ \A j \in 1..Len(events) : events[j].app_id = "app1" /\ events[j].id = j
    /\ Len(stats) = 6
    /\ \A p \in {1, 2} : req[p].kind = "batch" /\ resp[p].status = 200
    /\ \E i \in 1..Len(stats) : stats[i].metric = "page_view" /\ stats[i].value = Num(3)
    /\ stats[Len(stats)].metric = "crash"

(***************************************************************************)
(* Who writes.                                                             *)
(***************************************************************************)
ReadKinds == {"stats", "events", "apps", "app", "timeseries"}

\* the handler of slot p's read request takes a step: the request arrives
\* or one of its queries is answered
ReaderStep(p) ==
    /\ pc[p] # "done"
    /\ (pc'[p] # pc[p] \/ locals'[p] # locals[p])
    /\ req'[p].kind \in ReadKinds

\* C20: only record and recordBatch write.  Every step of a listStats,
\* groupByCategory, topMetrics, timeseries, event history, listApps,
\* summary or dashboard request leaves the event log and the stats table
\* as they are, and every step that changes one of the tables is a step of
\* a record or a recordBatch request.
ReadersWriteNothing ==
    [][ /\ \A p \in Procs : ReaderStep(p) => events' = events /\ stats' = stats
        /\ (events' # events \/ stats' # stats)
             => \E p \in Procs : TrackStep(p) \/ BatchStep(p) ]_vars

\* a dashboard and an event history, both answered over the five events
\* and five counters of a committed batch that are still all there
ReadersWriteNothingWitness ==
    /\ Len(events) = 5 /\ Len(stats) = 5
    /\ \E p \in Procs :
         /\ req[p].kind = "batch" /\ resp[p].status = 200
         /\ \E q \in Procs :
              /\ q > p
              /\ resp[q].status = 200
              /\ \/ /\ req[q].kind = "app" /\ AppView(req[q]) = "dashboard"
                    /\ resp[q].summary.event_count = 5
                    /\ resp[q].recent_activity.last_24h_events = 3
                 \/ /\ req[q].kind = "events"
                    /\ resp[q].count = 3


(***************************************************************************)
(* The readers' contracts.                                                 *)
(***************************************************************************)
\* slot p has answered a topMetrics request with a list
TopMetricsDone(p) ==
    /\ pc[p] = "done" /\ req[p].kind = "stats"
    /\ StatsView(req[p]) = "top"
    /\ resp[p].status = 200

\* C21 as claimed: topMetrics returns at most min(limit, 100) rows (none
\* for a limit below 1), each one a counter of the request's app and, when
\* the request names a category, of that category, ordered by value:
\* ascending when sort is asc in any case, else descending.
TopMetricsWithinLimit ==
    \A p \in Procs :
        TopMetricsDone(p) =>
            LET r       == req[p]
                limit   == parseInt(OrElse(r.params.limit, Str("10"))[2])
                metrics == resp[p].metrics
            IN  /\ limit # NaN
                /\ Len(metrics) <= Max(0, Min(limit[2], 100))
                /\ \A k \in 1..Len(metrics) :
                     /\ StatIndex(stats, r.app_id, metrics[k].metric) # 0
                     /\ Truthy(r.params.category)
                          => metrics[k].category = r.params.category[2]
                /\ \A j, k \in 1..Len(metrics) :
                     j < k =>
                       IF r.params.sort # Null /\ toLowerCase(r.params.sort[2]) = "asc"
                       THEN metrics[j].value[2] <= metrics[k].value[2]
                       ELSE metrics[j].value[2] >= metrics[k].value[2]

\* the handler of slot p's summary request gets the answer of one more of
\* its queries in this step
SummaryStep(p) ==
    /\ req'[p].kind = "app" /\ AppView(req'[p]) = "summary"
    /\ pc[p] \in {"idle", "reading"}
    /\ Len(locals'[p]) = (IF pc[p] = "idle" THEN 0 ELSE Len(locals[p])) + 1

\* the app's stats rows of one category
CategoryRows(st, app_id, category) ==
    {i \in 1..Len(st) : st[i].app_id = app_id /\ st[i].category = category}

\* what the summary's first three queries and its response have to hold:
\* the number of the app's event rows, the number of its stats rows, the
\* greatest timestamp of its event rows (null without events), and in the
\* response these three, the timestamp as an ISO date, next to the entry per
\* category of the fourth query
SummaryCounts(p) ==
    LET app_id  == req'[p].app_id
        answers == locals'[p]
        n       == Len(answers)
        mine    == {i \in 1..Len(events) : events[i].app_id = app_id}
    IN  /\ n = 1 => answers[1] = Cardinality(mine)
        /\ n = 2 => answers[2] = Cardinality({i \in 1..Len(stats) : stats[i].app_id = app_id})
        /\ n = 3 => /\ mine = {} => answers[3] = Null
                    /\ mine # {} =>
                         /\ \E i \in mine : answers[3] = Num(events[i].timestamp)
                         /\ \A i \in mine : answers[3][2] >= events[i].timestamp
        /\ n = 5 => /\ pc'[p] = "done" /\ resp'[p].status = 200
                    /\ resp'[p].event_count = answers[1]
                    /\ resp'[p].metric_count = answers[2]
                    /\ resp'[p].last_activity =
                         (IF answers[3] = Null THEN Null
                          ELSE Str(toISOString(answers[3][2])))
                    /\ DOMAIN resp'[p].categories
                         = {answers[4][k].category : k \in 1..Len(answers[4])}
                    /\ \A k \in 1..Len(answers[4]) :
                         resp'[p].categories[answers[4][k].category] = answers[4][k].count

\* C22 as claimed: the summary reports the app's event count, its stat
\* count, the timestamp of its most recent event, and for each category of
\* the app's Stat rows the sum of `value` over the rows of that category.
SummarySumsValues ==
    [][ \A p \in Procs :
          SummaryStep(p) =>
            /\ SummaryCounts(p)
            /\ Len(locals'[p]) = 4 =>
                 LET groups == locals'[p][4]
                 IN  /\ {groups[k].category : k \in 1..Len(groups)}
                          = {stats[i].category :
                               i \in {j \in 1..Len(stats) : stats[j].app_id = req'[p].app_id}}
                     /\ \A k \in 1..Len(groups) :
                          Num(groups[k].count)
                            = SqlSum(stats, CategoryRows(stats, req'[p].app_id,
                                                         groups[k].category)) ]_vars

\* C22: the summary reports the app's event count, its stat count, the
\* timestamp of its most recent event, and for each category of the app's
\* Stat rows the number of the rows of that category, each as the tables
\* hold it when the summary reads it.
SummaryCountsRows ==
    [][ \A p \in Procs :
          SummaryStep(p) =>
            /\ SummaryCounts(p)
            /\ Len(locals'[p]) = 4 =>
                 LET groups == locals'[p][4]
                 IN  /\ {groups[k].category : k \in 1..Len(groups)}
                          = {stats[i].category :
                               i \in {j \in 1..Len(stats) : stats[j].app_id = req'[p].app_id}}
                     /\ \A k \in 1..Len(groups) :
                          groups[k].count
                            = Cardinality(CategoryRows(stats, req'[p].app_id,
                                                       groups[k].category)) ]_vars

\* a summary of app1 answered after the batch of five events: two counters
\* of revenue that hold 15 together, two of engagement, one of lifecycle
SummaryCountsRowsWitness ==
    \E p \in Procs :
        /\ pc[p] = "done" /\ req[p].kind = "app" /\ AppView(req[p]) = "summary"
        /\ resp[p].status = 200
        /\ resp[p].event_count = 5 /\ resp[p].metric_count = 5
        /\ resp[p].last_activity = Str(toISOString(SeriesNow - SecondsPerHour))
        /\ DOMAIN resp[p].categories = {"revenue", "engagement", "lifecycle"}
        /\ resp[p].categories["revenue"] = 2
        /\ resp[p].categories["engagement"] = 2
        /\ resp[p].categories["lifecycle"] = 1
        /\ SqlSum(stats, CategoryRows(stats, "app1", "revenue")) = Num(15)

\* slot p answers a listStats request (the default view, not paginated)
\* with a list in this step
ListStatsStep(p) ==
    /\ pc[p] = "idle" /\ pc'[p] = "done"
    /\ req'[p].kind = "stats" /\ StatsView(req'[p]) = "default"
    /\ ~UsePagination(req'[p])
    /\ resp'[p].status = 200

\* C23 as claimed: listStats returns exactly the app's Stat rows whose
\* metric starts with the prefix, if the request has one, and whose category
\* is the request's category, if it has one, in ascending order of their
\* metric.
ListStatsByPrefix ==
    [][ \A p \in Procs :
          ListStatsStep(p) =>
            LET r    == req'[p]
                rows == locals'[p][1]
                want == {i \in 1..Len(stats) :
                           /\ stats[i].app_id = r.app_id
                           /\ Truthy(r.params.prefix)
                                => StartsWith(stats[i].metric, r.params.prefix[2])
                           /\ Truthy(r.params.category)
                                => stats[i].category = r.params.category[2]}
            IN  /\ {[metric |-> rows[k].metric, value |-> rows[k].value] : k \in 1..Len(rows)}
                     = {[metric |-> stats[i].metric, value |-> stats[i].value] : i \in want}
                /\ Len(rows) = Cardinality(want)
                /\ \A j, k \in 1..Len(rows) : j < k => StrLess(rows[j].metric, rows[k].metric)
                /\ DOMAIN resp'[p].stats = {stats[i].metric : i \in want}
                /\ \A i \in want : resp'[p].stats[stats[i].metric] = stats[i].value ]_vars

(***************************************************************************)
(* Failures of the store.                                                  *)
(***************************************************************************)
\* C24 as claimed: a request during which the store failed is answered with
\* an internal error that carries no text of the store: no field of the
\* response holds the message of the store's error.
StoreFailureOpaque ==
    \A p \in Procs :
        (pc[p] = "done" /\ resp[p].status = 500) =>
            ("details" \in DOMAIN resp[p] => resp[p].details # StoreErrorMessage)

(***************************************************************************)
(* The metric of a timeseries query.                                        *)
(***************************************************************************)
\* the metrics a timeseries request that passed the checks has queried
QueriedMetrics(p) ==
    IF req[p].kind # "timeseries" \/ TimeseriesRejection(req[p]) # NoResponse
    THEN {}
    ELSE IF Truthy(req[p].params.metric)
    THEN (IF pc[p] = "done" THEN {req[p].params.metric[2]} ELSE {})
    ELSE {locals[p][k].metric : k \in 1..Len(locals[p])}

\* C25 as claimed: the engine splits a queried metric at its first '.': the
\* event type is the text before it and the qualifier all of the text after
\* it, null if the metric has no '.'.
MetricSplitAtFirstDot ==
    \A p \in Procs :
        \A metric \in QueriedMetrics(p) :
            LET i == IndexFrom(metric, ".", 1)
            IN  SplitMetric(metric) =
                  IF i = 0
                  THEN [event_type |-> metric, qualifier |-> Null]
                  ELSE [event_type |-> SubSeq(metric, 1, i - 1),
                        qualifier |-> Str(SubSeq(metric, i + 1, Len(metric)))]

\* slot p's /track/batch request commits in this step
BatchCommitStep(p) == BatchStep(p) /\ resp'[p].status = 200

\* the metric keys of the event objects of a batch request
BatchKeys(r) ==
    {<<r.app_id, buildMetricKey(BatchFields(r, i).event_type[2], BatchFields(r, i).qualifier)>> :
        i \in 1..Len(r.data.events[2])}

\* C26: a batch of N events that commits appends exactly N event rows behind
\* the rows that were there, every counter grows by the sum of the values of
\* the batch's events with its metric key (by 0 if the key does not occur in
\* the batch), also when several events share a key, and the counter rows of
\* keys that do not occur in the batch stay as they are and none is created.
BatchAddsPerKey ==
    [][\A p \in Procs :
         BatchCommitStep(p) =>
           LET r == req'[p]
           IN  /\ Len(events') = Len(events) + Len(r.data.events[2])
               /\ SubSeq(events', 1, Len(events)) = events
               /\ \A key \in KeysOf(events', stats') :
                    StatValue(stats', key[1], key[2]) - StatValue(stats, key[1], key[2])
                      = CallValue(r, key[1], key[2])
               /\ \A i \in 1..Len(stats) :
                    <<stats[i].app_id, stats[i].metric>> \notin BatchKeys(r)
                      => i <= Len(stats') /\ stats'[i] = stats[i]
               /\ \A i \in 1..Len(stats') :
                    <<stats'[i].app_id, stats'[i].metric>> \notin BatchKeys(r)
                      => i <= Len(stats)
    ]_vars

\* two batches of one app have committed, the second on top of the first:
\* page_view got 17 from seven events of the one and 17 from two events of
\* the other, click 4 and 10, and page_view.home, which only the first names,
\* holds its 11
BatchAddsPerKeyWitness ==
    /\ \A p \in Procs : p <= 2 => /\ pc[p] = "done" /\ req[p].kind = "batch"
                                  /\ req[p].app_id = "app1" /\ resp[p].status = 200
    /\ Len(req[1].data.events[2]) # Len(req[2].data.events[2])
    /\ Len(events) = 14
    /\ SelectStat(stats, "app1", "page_view") = Num(34)
    /\ SelectStat(stats, "app1", "click") = Num(14)
    /\ SelectStat(stats, "app1", "page_view.home") = Num(11)

\* the sum of the totals of the first n rows of a series
RECURSIVE SeriesTotal(_, _)
SeriesTotal(data, n) ==
    IF n = 0 THEN 0 ELSE SeriesTotal(data, n - 1) + data[n].total[2]

\* C27: the views agree.  Whenever a single-metric timeseries query without
\* a country, over a range that holds the timestamp of every recorded event
\* and with a limit above the number of buckets it returns, is answered, the
\* totals of its buckets add up to the value of the metric's counter for the
\* app (0 if there is no counter).  No event type or qualifier that was
\* recorded contains a '.'.
SeriesTotalIsCounter ==
    [][\A p \in Procs :
         ( /\ SingleSeriesStep(p)
           /\ req'[p].params.country = Null
           /\ \A i \in 1..Len(events) :
                /\ QueryFrom(req'[p]) <= events[i].timestamp
                /\ events[i].timestamp <= QueryTo(req'[p])
           /\ Len(resp'[p].data) < QueryLimit(req'[p])[2] )
         => SeriesTotal(resp'[p].data, Len(resp'[p].data))
              = StatValue(stats', req'[p].app_id, req'[p].params.metric[2])
    ]_vars

\* the rows of a store that belong to one app, in their order
RowsOfApp(db, app_id) ==
    [events |-> SelectSeq(db.events, LAMBDA e : e.app_id = app_id),
     stats  |-> SelectSeq(db.stats, LAMBDA s : s.app_id = app_id)]

\* the rows of a store that belong to the other apps, in their order
RowsOfOtherApps(db, app_id) ==
    [events |-> SelectSeq(db.events, LAMBDA e : e.app_id # app_id),
     stats  |-> SelectSeq(db.stats, LAMBDA s : s.app_id # app_id)]

\* C28: tenants are isolated.  A step of a record or recordBatch request of
\* app A leaves the event rows and the counter rows of every other app as
\* they are and creates none.  Every answer a request for app A gets from
\* the store (listStats, groupByCategory, topMetrics, the event history,
\* summary, dashboard, and each series of a timeseries query) is an answer
\* the store gives when it holds the rows of A only.
TenantsIsolated ==
    [][\A p \in Procs :
         LET r      == req'[p]
             before == [events |-> events, stats |-> stats]
             after  == [events |-> events', stats |-> stats']
             own    == RowsOfApp(before, r.app_id)
         IN  /\ (TrackStep(p) \/ BatchStep(p))
                  => RowsOfOtherApps(after, r.app_id) = RowsOfOtherApps(before, r.app_id)
             /\ ( /\ ReaderStep(p)
                  /\ r.kind \in {"stats", "events", "app"}
                  /\ Len(locals'[p]) = Len(locals[p]) + 1 )
                  => locals'[p][Len(locals'[p])]
                       \in QueryResults(own, r, NextQuery(r, locals[p]))
             /\ SingleSeriesStep(p)
                  => resp'[p].data = SingleSeriesData(own.events, r)
             /\ MetricQueryStep(p)
                  => LET it == locals'[p][Len(locals'[p])]
                     IN  it.rows = MetricRows(own.events, r, it.metric)
    ]_vars

\* app2's batch has committed after app1's: both apps count install, each
\* in a row of its own, and app1's row still holds the value and the time of
\* app1's one install
TenantsIsolatedWitness ==
    \E p, q \in Procs :
        /\ p < q
        /\ req[p].kind = "batch" /\ req[p].app_id = "app1" /\ resp[p].status = 200
        /\ req[q].kind = "batch" /\ req[q].app_id = "app2" /\ resp[q].status = 200
        /\ \E i, j \in 1..Len(stats) :
             /\ stats[i].app_id = "app1" /\ stats[i].metric = "install"
             /\ stats[i].value = Num(1)
             /\ stats[i].last_updated = SeriesNow - 10 * SecondsPerDay
             /\ stats[j].app_id = "app2" /\ stats[j].metric = "install"
             /\ stats[j].value = Num(3)

\* C29: a multi-metric timeseries query that names one metric only is
\* answered with the buckets, totals and order of the single-metric query
\* for that metric with the same period, range, country and limit over the
\* same events, whatever the limit is.
OneMetricListAsSingle ==
    [][\A p \in Procs :
         ( /\ MetricQueryStep(p)
           /\ pc'[p] = "done" /\ resp'[p].status = 200
           /\ Len(MetricsList(req[p])) = 1 )
         => LET single == [req[p] EXCEPT !.params.metric = Str(MetricsList(req[p])[1]),
                                         !.params.metrics = Null]
                data   == resp'[p].data
            IN  [i \in 1..Len(data) |->
                    [time_period |-> data[i].time_period,
                     total |-> data[i].totals[1].total]]
                  = SingleSeriesData(events, single)
    ]_vars

\* C30: every event row and every counter row holds an integer, never NULL:
\* a call that supplies no value, or null, records 1 and adds 1.
ValuesAreIntegers ==
    /\ \A i \in 1..Len(events) : events[i].value # Null /\ events[i].value[1] = "number"
    /\ \A i \in 1..Len(stats) : stats[i].value # Null /\ stats[i].value[1] = "number"
    /\ \A p \in Procs :
         (pc[p] = "readback" /\ req[p].kind = "track"
            /\ req[p].data.value \in {Null, Undefined}) =>
           \E i \in 1..Len(events) :
               /\ events[i].app_id = req[p].app_id
               /\ events[i].event_type = req[p].data.event_type[2]
               /\ events[i].value = Num(1)

====
